---------------------------- MODULE Spec2Model ----------------------------
(***************************************************************************)
(* A model of the CNC feeds-and-speeds calculator: the feedrate formula,   *)
(* the chipload table with its interpolation and extrapolation, and the    *)
(* parameter value objects with their validation.                          *)
(*                                                                         *)
(* Numbers.  The program computes with Python floats (IEEE doubles).  A    *)
(* number is modelled as the record [n, d, e] standing for (n/d) * 2^e,    *)
(* kept in a normal form (n and d odd and coprime, d > 0, zero is          *)
(* [0, 1, 0]) so that equal values are equal records.  Multiplication and  *)
(* division are exact.  Addition and subtraction are exact too, except     *)
(* for the one effect of double rounding that changes what the program     *)
(* does: an addend smaller than 2^-55 times the other operand is below a   *)
(* quarter of a unit in the last place of the result and is absorbed       *)
(* (x + tiny = x).  Square roots are never evaluated: a feedrate is kept   *)
(* as the pair [base, den] standing for base / sqrt(den).                  *)
(***************************************************************************)
EXTENDS Integers, Sequences, FiniteSets, TLC

VARIABLES pc,    \* "idle": no call in progress; "returned": a call has returned
          op,    \* the operation called last
          args,  \* its arguments
          ret,   \* its outcome: [kind, msg, val]
          calls, \* what the call asked of the user interface, in order
          locals,      \* the locals of a scan of the maximizer under way
          evaluations  \* the feedrates that scan has had calculated so far

vars == <<pc, op, args, ret, calls, locals, evaluations>>

(***************************** bounds **************************************)
MaxFlutes == 2
MaxHalfMM == 20

\* most increments between the chipload bounds handed to the maximizer
MaxScan == 4

(************************ float arithmetic *********************************)
Zero == [n |-> 0, d |-> 1, e |-> 0]

Abs(i) == IF i < 0 THEN 0 - i ELSE i

Min(i, j) == IF i <= j THEN i ELSE j

RECURSIVE GCD(_, _)
GCD(a, b) == IF b = 0 THEN a ELSE GCD(b, a % b)

Pow2(k) == 2 ^ k

RECURSIVE Norm(_, _, _)
Norm(n, d, e) ==
    IF n = 0 THEN Zero
    ELSE IF n % 2 = 0 THEN Norm(n \div 2, d, e + 1)
    ELSE IF d % 2 = 0 THEN Norm(n, d \div 2, e - 1)
    ELSE LET g == GCD(Abs(n), d)
         IN  [n |-> n \div g, d |-> d \div g, e |-> e]

\* an integer literal, and a decimal literal m / 10^k (0.0254 is Dec(254, 4))
Int2F(i) == Norm(i, 1, 0)

Dec(m, k) == Norm(m, 10 ^ k, 0)

One == Int2F(1)

Two == Int2F(2)

Neg(a) == [a EXCEPT !.n = 0 - a.n]

Mul(a, b) ==
    LET g1 == GCD(Abs(a.n), b.d)
        g2 == GCD(Abs(b.n), a.d)
    IN  Norm((a.n \div g1) * (b.n \div g2), (a.d \div g2) * (b.d \div g1), a.e + b.e)

Inv(b) ==
    IF b.n > 0 THEN [n |-> b.d, d |-> b.n, e |-> 0 - b.e]
    ELSE [n |-> 0 - b.d, d |-> 0 - b.n, e |-> 0 - b.e]

\* a / b for b # 0; the callers test for a zero divisor first
Div(a, b) == Mul(a, Inv(b))

\* |a| < |b| for a, b # 0.  With p = |a.n| * b.d and q = |b.n| * a.d this is
\* p * 2^k < q for k = a.e - b.e; p and q are below 2^31, which decides the
\* comparison when the exponents are more than 30 apart.
LessMag(a, b) ==
    LET k == a.e - b.e
        p == Abs(a.n) * b.d
        q == Abs(b.n) * a.d
    IN  /\ p > 0
        /\ q > 0
        /\ IF k >= 0
           THEN k <= 30 /\ p <= (q - 1) \div Pow2(k)
           ELSE (0 - k) > 30 \/ (p \div Pow2(0 - k)) < q

Less(a, b) ==
    CASE a.n < 0 /\ b.n >= 0 -> TRUE
      [] a.n = 0             -> b.n > 0
      [] a.n > 0 /\ b.n <= 0 -> FALSE
      [] a.n > 0 /\ b.n > 0  -> LessMag(a, b)
      [] OTHER               -> b.n < 0 /\ LessMag(b, a)

Leq(a, b) == a = b \/ Less(a, b)

\* x is lost when added to y: |x| * 2^55 <= |y| (x, y # 0)
Absorbed(x, y) == ~LessMag(y, [x EXCEPT !.e = x.e + 55])

AddExact(a, b) ==
    LET m == Min(a.e, b.e)
        g == GCD(a.d, b.d)
        na == a.n * Pow2(a.e - m) * (b.d \div g)
        nb == b.n * Pow2(b.e - m) * (a.d \div g)
    IN  Norm(na + nb, (a.d \div g) * b.d, m)

Add(a, b) ==
    IF a = Zero THEN b
    ELSE IF b = Zero THEN a
    ELSE IF Absorbed(b, a) THEN a
    ELSE IF Absorbed(a, b) THEN b
    ELSE AddExact(a, b)

Sub(a, b) == Add(a, Neg(b))

Sq(a) == Mul(a, a)

Max(a, b) == IF Less(a, b) THEN b ELSE a

(************************ outcomes of a call *******************************)
NoValue == <<>>

Returns(v) == [kind |-> "ok", msg |-> "", val |-> v]

Raises(k, m) == [kind |-> k, msg |-> m, val |-> NoValue]

(****************** calculations.CuttingParameters *************************)
None == "None"

\* validate with the tool diameter tested before the flutes
validate_diameter_first(p) ==
    IF Leq(p.tool_diameter, Zero) THEN "Tool diameter must be positive"
    ELSE IF Leq(p.flutes, Zero) THEN "Number of flutes must be positive"
    ELSE IF Leq(p.rpm, Zero) THEN "RPM must be positive"
    ELSE IF Leq(p.width_of_cut, Zero) THEN "Width of cut must be positive"
    ELSE IF Leq(p.depth_of_cut, Zero) THEN "Depth of cut must be positive"
    ELSE IF Leq(p.chipload, Zero) THEN "Chipload must be positive"
    ELSE IF Less(p.tool_diameter, p.width_of_cut)
         THEN "Width of cut cannot exceed tool diameter"
    ELSE None

validate(p) ==
    IF Leq(p.flutes, Zero) THEN "Number of flutes must be positive"
    ELSE IF Leq(p.tool_diameter, Zero) THEN "Tool diameter must be positive"
    ELSE IF Leq(p.rpm, Zero) THEN "RPM must be positive"
    ELSE IF Leq(p.width_of_cut, Zero) THEN "Width of cut must be positive"
    ELSE IF Leq(p.depth_of_cut, Zero) THEN "Depth of cut must be positive"
    ELSE IF Leq(p.chipload, Zero) THEN "Chipload must be positive"
    ELSE IF Less(p.tool_diameter, p.width_of_cut)
         THEN "Width of cut cannot exceed tool diameter"
    ELSE None

(****************** ChiploadCalculator.calculate_feedrate ******************)
\* base_feedrate / math.sqrt(den): math.sqrt raises ValueError below zero,
\* and the float division raises ZeroDivisionError when the root is 0.0
DivBySqrt(base_feedrate, den) ==
    IF Less(den, Zero) THEN Raises("ValueError", "math domain error")
    ELSE IF den = Zero THEN Raises("ZeroDivisionError", "float division by zero")
    ELSE Returns([base |-> base_feedrate, den |-> den])

\* variants of calculate_feedrate with one slip each
calculate_feedrate_without_flutes(p) ==
    LET validation_error == validate(p)
        base_feedrate == Mul(p.rpm, p.chipload)
    IN  IF validation_error # None
        THEN Raises("ValueError", validation_error)
        ELSE IF Less(Div(p.tool_diameter, Two), p.width_of_cut)
        THEN Returns([base |-> base_feedrate, den |-> One])
        ELSE DivBySqrt(base_feedrate,
                 Sub(One, Sq(Sub(One, Div(Mul(Two, p.width_of_cut), p.tool_diameter)))))

calculate_feedrate_plus_square(p) ==
    LET validation_error == validate(p)
        base_feedrate == Mul(Mul(p.rpm, p.chipload), p.flutes)
    IN  IF validation_error # None
        THEN Raises("ValueError", validation_error)
        ELSE IF Less(Div(p.tool_diameter, Two), p.width_of_cut)
        THEN Returns([base |-> base_feedrate, den |-> One])
        ELSE DivBySqrt(base_feedrate,
                 Add(One, Sq(Sub(One, Div(Mul(Two, p.width_of_cut), p.tool_diameter)))))

calculate_feedrate_always_corrected(p) ==
    LET validation_error == validate(p)
        base_feedrate == Mul(Mul(p.rpm, p.chipload), p.flutes)
    IN  IF validation_error # None
        THEN Raises("ValueError", validation_error)
        ELSE DivBySqrt(base_feedrate,
                 Sub(One, Sq(Sub(One, Div(Mul(Two, p.width_of_cut), p.tool_diameter)))))

calculate_feedrate_never_corrected(p) ==
    LET validation_error == validate(p)
        base_feedrate == Mul(Mul(p.rpm, p.chipload), p.flutes)
    IN  IF validation_error # None
        THEN Raises("ValueError", validation_error)
        ELSE Returns([base |-> base_feedrate, den |-> One])

calculate_feedrate(p) ==
    LET validation_error == validate(p)
        base_feedrate == Mul(Mul(p.rpm, p.chipload), p.flutes)
    IN  IF validation_error # None
        THEN Raises("ValueError", validation_error)
        ELSE IF Less(Div(p.tool_diameter, Two), p.width_of_cut)
        THEN Returns([base |-> base_feedrate, den |-> One])
        ELSE DivBySqrt(base_feedrate,
                 Sub(One, Sq(Sub(One, Div(Mul(Two, p.width_of_cut), p.tool_diameter)))))

(****************** data_models.CuttingParameters **************************)
\* validate(), called by __post_init__: raises at the first failing check
dm_validate(p) ==
    IF Leq(p.flutes, Zero) THEN "Number of flutes must be positive"
    ELSE IF Leq(p.tool_diameter, Zero) THEN "Tool diameter must be positive"
    ELSE IF Leq(p.rpm, Zero) THEN "RPM must be positive"
    ELSE IF Leq(p.width_of_cut, Zero) THEN "Width of cut must be positive"
    ELSE IF Leq(p.depth_of_cut, Zero) THEN "Depth of cut must be positive"
    ELSE IF Leq(p.chipload, Zero) THEN "Chipload must be positive"
    ELSE None

\* the dataclass constructor: the fields are stored, then __post_init__ runs
dm_CuttingParameters(fields) ==
    IF dm_validate(fields) # None
    THEN Raises("ValueError", dm_validate(fields))
    ELSE Returns(fields)

\* calculations.CuttingParameters is a plain dataclass: no __post_init__
calc_CuttingParameters(fields) == Returns(fields)

(****************** MaterialProperties.get_default_materials ***************)
get_default_materials ==
    [name \in {"Soft plastics", "Soft wood & hard plastics", "Hard wood & aluminium"} |->
        CASE name = "Soft plastics" ->
                 (Dec(15, 1)   :> <<Dec(5, 2), Dec(75, 3)>>) @@
                 (Dec(3175, 3) :> <<Dec(5, 2), Dec(13, 2)>>) @@
                 (Int2F(6)     :> <<Dec(5, 2), Dec(254, 3)>>)
          [] name = "Soft wood & hard plastics" ->
                 (Dec(15, 1)   :> <<Dec(25, 3), Dec(4, 2)>>) @@
                 (Dec(3175, 3) :> <<Dec(25, 3), Dec(63, 3)>>) @@
                 (Int2F(6)     :> <<Dec(25, 3), Dec(127, 3)>>)
          [] OTHER ->
                 (Dec(15, 1)   :> <<Dec(13, 3), Dec(13, 3)>>) @@
                 (Dec(3175, 3) :> <<Dec(13, 3), Dec(25, 3)>>) @@
                 (Int2F(6)     :> <<Dec(25, 3), Dec(5, 2)>>)]

\* self.materials, set in ChiploadCalculator.__init__
materials == get_default_materials

(****************** ChiploadCalculator.suggest_chipload ********************)
\* sorted(...): ascending
RECURSIVE sorted(_)
sorted(S) ==
    IF S = {} THEN <<>>
    ELSE LET m == CHOOSE x \in S : \A y \in S : Leq(x, y)
         IN  <<m>> \o sorted(S \ {m})

\* max(...) and min(...) of a non-empty collection
MaxOf(S) == CHOOSE x \in S : \A y \in S : Leq(y, x)

MinOf(S) == CHOOSE x \in S : \A y \in S : Leq(x, y)

\* _interpolate measuring x from the upper reference instead of the lower
_interpolate_from_x2(x, x1, y1, x2, y2) ==
    Add(y1, Div(Mul(Sub(x, x2), Sub(y2, y1)), Sub(x2, x1)))

_interpolate(x, x1, y1, x2, y2) ==
    Add(y1, Div(Mul(Sub(x, x1), Sub(y2, y1)), Sub(x2, x1)))

\* the branch for large tool diameters: extrapolation from the last two
\* reference diameters, the lower bound clamped from below
\* extrapolation that starts from the range of the second-to-last reference
extrapolate_from_lower_range(chipload_ranges, diameters, tool_diameter) ==
    LET lower_diameter == diameters[Len(diameters) - 1]
        upper_diameter == diameters[Len(diameters)]
        lower_range == chipload_ranges[lower_diameter]
        upper_range == chipload_ranges[upper_diameter]
        slope_lower == Div(Sub(upper_range[1], lower_range[1]),
                           Sub(upper_diameter, lower_diameter))
        slope_upper == Div(Sub(upper_range[2], lower_range[2]),
                           Sub(upper_diameter, lower_diameter))
        extrapolated_lower ==
            Add(lower_range[1], Mul(slope_lower, Sub(tool_diameter, upper_diameter)))
        extrapolated_upper ==
            Add(lower_range[2], Mul(slope_upper, Sub(tool_diameter, upper_diameter)))
    IN  <<Max(extrapolated_lower, chipload_ranges[diameters[1]][1]), extrapolated_upper>>

\* extrapolation with the slope between the first two references
extrapolate_first_slope(chipload_ranges, diameters, tool_diameter) ==
    LET lower_diameter == diameters[1]
        upper_diameter == diameters[2]
        last_diameter == diameters[Len(diameters)]
        lower_range == chipload_ranges[lower_diameter]
        upper_range == chipload_ranges[upper_diameter]
        last_range == chipload_ranges[last_diameter]
        slope_lower == Div(Sub(upper_range[1], lower_range[1]),
                           Sub(upper_diameter, lower_diameter))
        slope_upper == Div(Sub(upper_range[2], lower_range[2]),
                           Sub(upper_diameter, lower_diameter))
        extrapolated_lower ==
            Add(last_range[1], Mul(slope_lower, Sub(tool_diameter, last_diameter)))
        extrapolated_upper ==
            Add(last_range[2], Mul(slope_upper, Sub(tool_diameter, last_diameter)))
    IN  <<Max(extrapolated_lower, chipload_ranges[diameters[1]][1]), extrapolated_upper>>

\* extrapolation with the upper bound's line run downward
extrapolate_upper_downward(chipload_ranges, diameters, tool_diameter) ==
    LET lower_diameter == diameters[Len(diameters) - 1]
        upper_diameter == diameters[Len(diameters)]
        lower_range == chipload_ranges[lower_diameter]
        upper_range == chipload_ranges[upper_diameter]
        slope_lower == Div(Sub(upper_range[1], lower_range[1]),
                           Sub(upper_diameter, lower_diameter))
        slope_upper == Div(Sub(upper_range[2], lower_range[2]),
                           Sub(upper_diameter, lower_diameter))
        extrapolated_lower ==
            Add(upper_range[1], Mul(slope_lower, Sub(tool_diameter, upper_diameter)))
        extrapolated_upper ==
            Sub(upper_range[2], Mul(slope_upper, Sub(tool_diameter, upper_diameter)))
    IN  <<Max(extrapolated_lower, chipload_ranges[diameters[1]][1]), extrapolated_upper>>

\* extrapolation that runs the line downward and leaves the floor out
extrapolate_downward_unclamped(chipload_ranges, diameters, tool_diameter) ==
    LET lower_diameter == diameters[Len(diameters) - 1]
        upper_diameter == diameters[Len(diameters)]
        lower_range == chipload_ranges[lower_diameter]
        upper_range == chipload_ranges[upper_diameter]
        slope_lower == Div(Sub(upper_range[1], lower_range[1]),
                           Sub(upper_diameter, lower_diameter))
        slope_upper == Div(Sub(upper_range[2], lower_range[2]),
                           Sub(upper_diameter, lower_diameter))
        extrapolated_lower ==
            Sub(upper_range[1], Mul(slope_lower, Sub(tool_diameter, upper_diameter)))
        extrapolated_upper ==
            Add(upper_range[2], Mul(slope_upper, Sub(tool_diameter, upper_diameter)))
    IN  <<extrapolated_lower, extrapolated_upper>>

extrapolate(chipload_ranges, diameters, tool_diameter) ==
    LET lower_diameter == diameters[Len(diameters) - 1]
        upper_diameter == diameters[Len(diameters)]
        lower_range == chipload_ranges[lower_diameter]
        upper_range == chipload_ranges[upper_diameter]
        slope_lower == Div(Sub(upper_range[1], lower_range[1]),
                           Sub(upper_diameter, lower_diameter))
        slope_upper == Div(Sub(upper_range[2], lower_range[2]),
                           Sub(upper_diameter, lower_diameter))
        extrapolated_lower ==
            Add(upper_range[1], Mul(slope_lower, Sub(tool_diameter, upper_diameter)))
        extrapolated_upper ==
            Add(upper_range[2], Mul(slope_upper, Sub(tool_diameter, upper_diameter)))
    IN  <<Max(extrapolated_lower, chipload_ranges[diameters[1]][1]), extrapolated_upper>>

\* suggest_chipload taking diameters[1] of the 0-based list as the smallest
suggest_chipload_second_reference(tool_diameter, material_type) ==
    IF material_type \notin DOMAIN materials
    THEN Raises("ValueError", "Unknown material type: " \o material_type)
    ELSE
      LET chipload_ranges == materials[material_type]
          diameters == sorted(DOMAIN chipload_ranges)
          lower_diameter ==
              MaxOf({d \in DOMAIN chipload_ranges : Leq(d, tool_diameter)})
          upper_diameter ==
              MinOf({d \in DOMAIN chipload_ranges : Leq(tool_diameter, d)})
      IN  IF Leq(tool_diameter, diameters[1])
          THEN Returns(chipload_ranges[diameters[2]])
          ELSE IF Leq(diameters[Len(diameters)], tool_diameter)
          THEN Returns(extrapolate(chipload_ranges, diameters, tool_diameter))
          ELSE IF lower_diameter = upper_diameter
          THEN Returns(chipload_ranges[lower_diameter])
          ELSE Returns(
                 <<_interpolate(tool_diameter, lower_diameter,
                                chipload_ranges[lower_diameter][1],
                                upper_diameter, chipload_ranges[upper_diameter][1]),
                   _interpolate(tool_diameter, lower_diameter,
                                chipload_ranges[lower_diameter][2],
                                upper_diameter, chipload_ranges[upper_diameter][2])>>)

\* suggest_chipload falling back to a default material for an unknown one
suggest_chipload_default_material(tool_diameter, material_type) ==
      LET chipload_ranges == IF material_type \in DOMAIN materials
                             THEN materials[material_type]
                             ELSE materials["Soft plastics"]
          diameters == sorted(DOMAIN chipload_ranges)
          lower_diameter ==
              MaxOf({d \in DOMAIN chipload_ranges : Leq(d, tool_diameter)})
          upper_diameter ==
              MinOf({d \in DOMAIN chipload_ranges : Leq(tool_diameter, d)})
      IN  IF Leq(tool_diameter, diameters[1])
          THEN Returns(chipload_ranges[diameters[1]])
          ELSE IF Leq(diameters[Len(diameters)], tool_diameter)
          THEN Returns(extrapolate(chipload_ranges, diameters, tool_diameter))
          ELSE IF lower_diameter = upper_diameter
          THEN Returns(chipload_ranges[lower_diameter])
          ELSE Returns(
                 <<_interpolate(tool_diameter, lower_diameter,
                                chipload_ranges[lower_diameter][1],
                                upper_diameter, chipload_ranges[upper_diameter][1]),
                   _interpolate(tool_diameter, lower_diameter,
                                chipload_ranges[lower_diameter][2],
                                upper_diameter, chipload_ranges[upper_diameter][2])>>)

suggest_chipload(tool_diameter, material_type) ==
    IF material_type \notin DOMAIN materials
    THEN Raises("ValueError", "Unknown material type: " \o material_type)
    ELSE
      LET chipload_ranges == materials[material_type]
          diameters == sorted(DOMAIN chipload_ranges)
          lower_diameter ==
              MaxOf({d \in DOMAIN chipload_ranges : Leq(d, tool_diameter)})
          upper_diameter ==
              MinOf({d \in DOMAIN chipload_ranges : Leq(tool_diameter, d)})
      IN  IF Leq(tool_diameter, diameters[1])
          THEN Returns(chipload_ranges[diameters[1]])
          ELSE IF Leq(diameters[Len(diameters)], tool_diameter)
          THEN Returns(extrapolate(chipload_ranges, diameters, tool_diameter))
          ELSE IF lower_diameter = upper_diameter
          THEN Returns(chipload_ranges[lower_diameter])
          ELSE Returns(
                 <<_interpolate(tool_diameter, lower_diameter,
                                chipload_ranges[lower_diameter][1],
                                upper_diameter, chipload_ranges[upper_diameter][1]),
                   _interpolate(tool_diameter, lower_diameter,
                                chipload_ranges[lower_diameter][2],
                                upper_diameter, chipload_ranges[upper_diameter][2])>>)

(****************** calculations.calculate_feedrate (module function) ******)
\* event_handlers.py imports calculate_feedrate(flutes, rpm, chipload, woc,
\* tool_diameter) from calculations, which defines no such function; it is
\* taken from the feedrate contract: the listed constraints in their order,
\* the base feedrate, the engagement branch, a degenerate denominator refused
calculate_feedrate_function(flutes, rpm, chipload, woc, tool_diameter) ==
    IF Leq(flutes, Zero) THEN Raises("ValueError", "flutes")
    ELSE IF Leq(tool_diameter, Zero) THEN Raises("ValueError", "tool_diameter")
    ELSE IF Leq(rpm, Zero) THEN Raises("ValueError", "rpm")
    ELSE IF Leq(woc, Zero) THEN Raises("ValueError", "woc")
    ELSE IF Leq(chipload, Zero) THEN Raises("ValueError", "chipload")
    ELSE IF Less(tool_diameter, woc) THEN Raises("ValueError", "woc")
    ELSE LET base_feedrate == Mul(Mul(rpm, chipload), flutes)
             den == Sub(One, Sq(Sub(One, Div(Mul(Two, woc), tool_diameter))))
         IN  IF Less(Div(tool_diameter, Two), woc)
             THEN Returns([base |-> base_feedrate, den |-> One])
             ELSE IF Leq(den, Zero)
             THEN Raises("ValueError", "woc")
             ELSE Returns([base |-> base_feedrate, den |-> den])

(****************** EventHandler ********************************************)
\* the attributes __init__ sets
EventHandler == [_feedrate_limit |-> Int2F(6000), _chipload_increment |-> Dec(1, 4)]

\* a plain number as a feedrate
AsFeedrate(x) == [base |-> x, den |-> One]

\* the integer square root of n >= 0, by bisection
RECURSIVE ISqrtBetween(_, _, _)
ISqrtBetween(n, lo, hi) ==
    IF hi - lo <= 1 THEN lo
    ELSE LET mid == (lo + hi) \div 2
         IN  IF mid <= n \div mid
             THEN ISqrtBetween(n, mid, hi)
             ELSE ISqrtBetween(n, lo, mid)

ISqrt(n) == IF n = 0 THEN 0 ELSE ISqrtBetween(n, 1, n + 1)

\* the square root of x is a number of the same form
HasRoot(x) ==
    /\ x.n >= 0
    /\ x.e % 2 = 0
    /\ ISqrt(x.n) * ISqrt(x.n) = x.n
    /\ ISqrt(x.d) * ISqrt(x.d) = x.d

Root(x) == [n |-> ISqrt(x.n), d |-> ISqrt(x.d), e |-> x.e \div 2]

\* f < g for feedrates a / sqrt(p) and b / sqrt(q) that are not negative:
\* by value where both roots are rational, else by (a / b)^2 < p / q
FeedLess(f, g) ==
    IF HasRoot(f.den) /\ HasRoot(g.den)
    THEN Less(Div(f.base, Root(f.den)), Div(g.base, Root(g.den)))
    ELSE IF g.base = Zero THEN FALSE
    ELSE IF f.base = Zero THEN TRUE
    ELSE Less(Sq(Div(f.base, g.base)), Div(f.den, g.den))

FeedLeq(f, g) == ~FeedLess(g, f)

\* the locals of _find_maximum_feedrate, and how the loop stands
Locals(current_chipload, max_feedrate, max_chipload, exit, error) ==
    [current_chipload |-> current_chipload, max_feedrate |-> max_feedrate,
     max_chipload |-> max_chipload, exit |-> exit, error |-> error]

\* the loop body recording every improvement, the limit not looked at
while_body_no_ceiling(self, params, l) ==
    IF params.flutes = Zero
    THEN Locals(l.current_chipload, l.max_feedrate, l.max_chipload, "raise",
                Raises("ZeroDivisionError", "float division by zero"))
    ELSE
      LET per_flute_chipload == Div(l.current_chipload, params.flutes)
          outcome == calculate_feedrate_function(params.flutes, params.rpm,
                         per_flute_chipload, params.woc, params.tool_diameter)
          feedrate == outcome.val
          limit == AsFeedrate(self._feedrate_limit)
          next_chipload == Add(l.current_chipload, self._chipload_increment)
      IN  IF outcome.kind # "ok"
          THEN Locals(l.current_chipload, l.max_feedrate, l.max_chipload, "raise", outcome)
          ELSE IF FeedLess(l.max_feedrate, feedrate)
          THEN Locals(next_chipload, feedrate, l.current_chipload, "continue", None)
          ELSE IF FeedLess(limit, feedrate)
          THEN Locals(l.current_chipload, l.max_feedrate, l.max_chipload, "break", None)
          ELSE Locals(next_chipload, l.max_feedrate, l.max_chipload, "continue", None)

\* the loop body treating a feedrate equal to the limit as above it
while_body_stops_at_limit(self, params, l) ==
    IF params.flutes = Zero
    THEN Locals(l.current_chipload, l.max_feedrate, l.max_chipload, "raise",
                Raises("ZeroDivisionError", "float division by zero"))
    ELSE
      LET per_flute_chipload == Div(l.current_chipload, params.flutes)
          outcome == calculate_feedrate_function(params.flutes, params.rpm,
                         per_flute_chipload, params.woc, params.tool_diameter)
          feedrate == outcome.val
          limit == AsFeedrate(self._feedrate_limit)
          next_chipload == Add(l.current_chipload, self._chipload_increment)
      IN  IF outcome.kind # "ok"
          THEN Locals(l.current_chipload, l.max_feedrate, l.max_chipload, "raise", outcome)
          ELSE IF FeedLess(l.max_feedrate, feedrate) /\ FeedLess(feedrate, limit)
          THEN Locals(next_chipload, feedrate, l.current_chipload, "continue", None)
          ELSE IF FeedLeq(limit, feedrate)
          THEN Locals(l.current_chipload, l.max_feedrate, l.max_chipload, "break", None)
          ELSE Locals(next_chipload, l.max_feedrate, l.max_chipload, "continue", None)

\* the loop body with the comparison against the limit turned round
while_body_reversed_limit(self, params, l) ==
    IF params.flutes = Zero
    THEN Locals(l.current_chipload, l.max_feedrate, l.max_chipload, "raise",
                Raises("ZeroDivisionError", "float division by zero"))
    ELSE
      LET per_flute_chipload == Div(l.current_chipload, params.flutes)
          outcome == calculate_feedrate_function(params.flutes, params.rpm,
                         per_flute_chipload, params.woc, params.tool_diameter)
          feedrate == outcome.val
          limit == AsFeedrate(self._feedrate_limit)
          next_chipload == Add(l.current_chipload, self._chipload_increment)
      IN  IF outcome.kind # "ok"
          THEN Locals(l.current_chipload, l.max_feedrate, l.max_chipload, "raise", outcome)
          ELSE IF FeedLess(l.max_feedrate, feedrate) /\ FeedLeq(limit, feedrate)
          THEN Locals(next_chipload, feedrate, l.current_chipload, "continue", None)
          ELSE IF FeedLess(limit, feedrate)
          THEN Locals(l.current_chipload, l.max_feedrate, l.max_chipload, "break", None)
          ELSE Locals(next_chipload, l.max_feedrate, l.max_chipload, "continue", None)

\* one pass of the while body (lines 160-177): the locals after it
while_body(self, params, l) ==
    IF params.flutes = Zero
    THEN Locals(l.current_chipload, l.max_feedrate, l.max_chipload, "raise",
                Raises("ZeroDivisionError", "float division by zero"))
    ELSE
      LET per_flute_chipload == Div(l.current_chipload, params.flutes)
          outcome == calculate_feedrate_function(params.flutes, params.rpm,
                         per_flute_chipload, params.woc, params.tool_diameter)
          feedrate == outcome.val
          limit == AsFeedrate(self._feedrate_limit)
          next_chipload == Add(l.current_chipload, self._chipload_increment)
      IN  IF outcome.kind # "ok"
          THEN Locals(l.current_chipload, l.max_feedrate, l.max_chipload, "raise", outcome)
          ELSE IF FeedLess(l.max_feedrate, feedrate) /\ FeedLeq(feedrate, limit)
          THEN Locals(next_chipload, feedrate, l.current_chipload, "continue", None)
          ELSE IF FeedLess(limit, feedrate)
          THEN Locals(l.current_chipload, l.max_feedrate, l.max_chipload, "break", None)
          ELSE Locals(next_chipload, l.max_feedrate, l.max_chipload, "continue", None)

\* while current_chipload <= upper_chipload: ...
RECURSIVE while_loop(_, _, _, _)
while_loop(self, params, upper_chipload, l) ==
    IF l.exit # "continue" \/ ~Leq(l.current_chipload, upper_chipload)
    THEN l
    ELSE while_loop(self, params, upper_chipload, while_body(self, params, l))

\* _find_maximum_feedrate returning the pair without the test for 0
_find_maximum_feedrate_no_none(self, params, lower_chipload, upper_chipload) ==
    LET l == while_loop(self, params, upper_chipload,
                 Locals(lower_chipload, AsFeedrate(Zero), lower_chipload, "continue", None))
    IN  IF l.exit = "raise"
        THEN l.error
        ELSE Returns(<<l.max_feedrate, l.max_chipload>>)

_find_maximum_feedrate(self, params, lower_chipload, upper_chipload) ==
    LET l == while_loop(self, params, upper_chipload,
                 Locals(lower_chipload, AsFeedrate(Zero), lower_chipload, "continue", None))
    IN  IF l.exit = "raise"
        THEN l.error
        ELSE IF l.max_feedrate.base = Zero
        THEN Returns(None)
        ELSE Returns(<<l.max_feedrate, l.max_chipload>>)

(****************** types.ChiploadRange ************************************)
\* a float bound of a range: the double of the number x (err = 0) or, after
\* a product or a quotient that was rounded, the double next to it, below or
\* above (err = -1, 1)
Float(x, err) == [x |-> x, err |-> err]

\* a product or a quotient with flutes is exact when flutes is a power of
\* two; else it is rounded, with one of these outcomes
RoundingOutcomes(flutes) == IF Int2F(flutes).n = 1 THEN {0} ELSE {-1, 0, 1}

\* the err of a bound after a product or a quotient with the outcome k
rounded(err, flutes, k) == IF Int2F(flutes).n = 1 THEN err ELSE k

ChiploadRange(lower, upper, per_flute) ==
    [lower |-> lower, upper |-> upper, per_flute |-> per_flute]

\* k = <<outcome for lower, outcome for upper>>
to_total_chipload(self, flutes, k) ==
    IF self.per_flute
    THEN ChiploadRange(
             Float(Mul(self.lower.x, Int2F(flutes)), rounded(self.lower.err, flutes, k[1])),
             Float(Mul(self.upper.x, Int2F(flutes)), rounded(self.upper.err, flutes, k[2])),
             FALSE)
    ELSE self

\* to_per_flute_chipload multiplying as to_total_chipload does
to_per_flute_chipload_multiplying(self, flutes, k) ==
    IF ~self.per_flute
    THEN ChiploadRange(
             Float(Mul(self.lower.x, Int2F(flutes)), rounded(self.lower.err, flutes, k[1])),
             Float(Mul(self.upper.x, Int2F(flutes)), rounded(self.upper.err, flutes, k[2])),
             TRUE)
    ELSE self

to_per_flute_chipload(self, flutes, k) ==
    IF ~self.per_flute
    THEN ChiploadRange(
             Float(Div(self.lower.x, Int2F(flutes)), rounded(self.lower.err, flutes, k[1])),
             Float(Div(self.upper.x, Int2F(flutes)), rounded(self.upper.err, flutes, k[2])),
             TRUE)
    ELSE self

(****************** CuttingGuidelineCalculator *****************************)
calculate_woc_range(tool_diameter, cutting_style) ==
    IF cutting_style = "Wide and Shallow"
    THEN Returns(<<Mul(tool_diameter, Dec(4, 1)), tool_diameter>>)
    ELSE Returns(<<Mul(tool_diameter, Dec(1, 1)), Mul(tool_diameter, Dec(25, 2))>>)

\* calculate_doc_range with the two styles taken for one another
calculate_doc_range_styles_swapped(tool_diameter, cutting_style) ==
    IF cutting_style # "Wide and Shallow"
    THEN Returns(<<Mul(tool_diameter, Dec(5, 2)), Mul(tool_diameter, Dec(1, 1))>>)
    ELSE Returns(<<tool_diameter, Mul(tool_diameter, Int2F(3))>>)

calculate_doc_range(tool_diameter, cutting_style) ==
    IF cutting_style = "Wide and Shallow"
    THEN Returns(<<Mul(tool_diameter, Dec(5, 2)), Mul(tool_diameter, Dec(1, 1))>>)
    ELSE Returns(<<tool_diameter, Mul(tool_diameter, Int2F(3))>>)

\* calculate_plunge_rate_range with a branch for "Soft plastics" only, any
\* other identifier refused
calculate_plunge_rate_range_known_only(feedrate, material_type) ==
    IF material_type = "Hard wood & aluminium"
    THEN Returns(<<Mul(feedrate, Dec(1, 1)), Mul(feedrate, Dec(3, 1))>>)
    ELSE IF material_type = "Soft wood & hard plastics"
    THEN Returns(<<Mul(feedrate, Dec(3, 1)), Mul(feedrate, Dec(3, 1))>>)
    ELSE IF material_type = "Soft plastics"
    THEN Returns(<<Mul(feedrate, Dec(4, 1)), Mul(feedrate, Dec(5, 1))>>)
    ELSE Raises("ValueError", "Unknown material type: " \o material_type)

calculate_plunge_rate_range(feedrate, material_type) ==
    IF material_type = "Hard wood & aluminium"
    THEN Returns(<<Mul(feedrate, Dec(1, 1)), Mul(feedrate, Dec(3, 1))>>)
    ELSE IF material_type = "Soft wood & hard plastics"
    THEN Returns(<<Mul(feedrate, Dec(3, 1)), Mul(feedrate, Dec(3, 1))>>)
    ELSE Returns(<<Mul(feedrate, Dec(4, 1)), Mul(feedrate, Dec(5, 1))>>)

(****************** config.CuttingParameters *******************************)
CUTTING_GUIDELINES ==
    [style \in {"Wide and Shallow", "Narrow and Deep"} |->
        IF style = "Wide and Shallow"
        THEN [woc_min |-> Dec(4, 1), woc_max |-> One,
              doc_min |-> Dec(5, 2), doc_max |-> Dec(1, 1)]
        ELSE [woc_min |-> Dec(1, 1), woc_max |-> Dec(25, 2),
              doc_min |-> One, doc_max |-> Int2F(3)]]

PLUNGE_RATE_GUIDELINES ==
    [material \in {"Hard wood & aluminium", "Soft wood & hard plastics", "Soft plastics"} |->
        CASE material = "Hard wood & aluminium" -> <<Dec(1, 1), Dec(3, 1)>>
          [] material = "Soft wood & hard plastics" -> <<Dec(3, 1), Dec(3, 1)>>
          [] OTHER -> <<Dec(4, 1), Dec(5, 1)>>]

\* the value of a local variable, computed once: x = e; ...x... is written
\* The({...x... : x \in {e}})
The(S) == CHOOSE x \in S : TRUE

(****************** EventHandler._calculate_guidelines *********************)
\* f"{x:.<digits>f}" for x >= 0 and digits 0 or 2: the nearest decimal with
\* that many digits.  Half-way between two of them the double behind x
\* decides, which may lie to either side: tie = 0 gives the lower one, 1 the
\* upper one
format(x, digits, tie) ==
    The({The({IF digits = 0
              THEN ToString(units)
              ELSE LET last == units % (10 ^ digits)
                   IN  ToString(units \div (10 ^ digits)) \o "." \o
                       (IF last < 10 THEN "0" ELSE "") \o ToString(last) :
              units \in {LET num == IF y.e >= 0 THEN y.n * Pow2(y.e) ELSE y.n
                             den == IF y.e >= 0 THEN y.d ELSE y.d * Pow2(0 - y.e)
                             twice == 2 * (num % den)
                         IN  IF twice < den THEN num \div den
                             ELSE IF twice > den THEN (num \div den) + 1
                             ELSE (num \div den) + tie}}) :
         y \in {Mul(x, Int2F(10 ^ digits))}})

_calculate_guidelines(self, tool_diameter, feedrate, cutting_style, material, ties) ==
    LET woc_range ==
            IF cutting_style = "Wide and Shallow"
            THEN format(Mul(tool_diameter, Dec(4, 1)), 2, ties[1]) \o " to " \o
                 format(tool_diameter, 2, ties[2])
            ELSE format(Mul(tool_diameter, Dec(1, 1)), 2, ties[1]) \o " to " \o
                 format(Mul(tool_diameter, Dec(25, 2)), 2, ties[2])
        doc_range ==
            IF cutting_style = "Wide and Shallow"
            THEN format(Mul(tool_diameter, Dec(5, 2)), 2, ties[3]) \o " to " \o
                 format(Mul(tool_diameter, Dec(1, 1)), 2, ties[4])
            ELSE format(tool_diameter, 2, ties[3]) \o " to " \o
                 format(Mul(tool_diameter, Int2F(3)), 2, ties[4])
        plunge_rate ==
            IF material = "Hard wood & aluminium"
            THEN format(Mul(feedrate, Dec(1, 1)), 0, ties[5]) \o " to " \o
                 format(Mul(feedrate, Dec(3, 1)), 0, ties[6])
            ELSE IF material = "Soft wood & hard plastics"
            THEN format(Mul(feedrate, Dec(3, 1)), 0, ties[5])
            ELSE format(Mul(feedrate, Dec(4, 1)), 0, ties[5]) \o " to " \o
                 format(Mul(feedrate, Dec(5, 1)), 0, ties[6])
    IN  Returns([woc_range |-> woc_range, doc_range |-> doc_range,
                 plunge_rate |-> plunge_rate \o " mm/min"])

(****************** data_models.CalculationResults ************************)
\* the None of an Optional[float] field, a record so that it compares with a float
NoFloat == [none |-> TRUE]

\* _validate_results without the test of the depth-of-cut range
_validate_results_no_doc(self) ==
    LET w1 == IF Less(Int2F(10000), self.feedrate)
              THEN Append(self.warnings, "Calculated feedrate exceeds 10,000 mm/min")
              ELSE self.warnings
        w2 == IF Less(self.woc_max, self.woc_min)
              THEN Append(w1, "Invalid WOC range")
              ELSE w1
        w4 == IF /\ self.plunge_rate_min # NoFloat
                 /\ self.plunge_rate_max # NoFloat
                 /\ Less(self.plunge_rate_max, self.plunge_rate_min)
              THEN Append(w2, "Invalid plunge rate range")
              ELSE w2
    IN  [self EXCEPT !.warnings = w4]

\* the warnings are appended in the order of the tests
_validate_results(self) ==
    LET w1 == IF Less(Int2F(10000), self.feedrate)
              THEN Append(self.warnings, "Calculated feedrate exceeds 10,000 mm/min")
              ELSE self.warnings
        w2 == IF Less(self.woc_max, self.woc_min)
              THEN Append(w1, "Invalid WOC range")
              ELSE w1
        w3 == IF Less(self.doc_max, self.doc_min)
              THEN Append(w2, "Invalid DOC range")
              ELSE w2
        w4 == IF /\ self.plunge_rate_min # NoFloat
                 /\ self.plunge_rate_max # NoFloat
                 /\ Less(self.plunge_rate_max, self.plunge_rate_min)
              THEN Append(w3, "Invalid plunge rate range")
              ELSE w3
    IN  [self EXCEPT !.warnings = w4]

\* the dataclass constructor: the fields are stored, then __post_init__ runs
\* (a warnings argument left out is the default None, replaced by a new list)
dm_CalculationResults(fields) ==
    LET self == IF "warnings" \in DOMAIN fields
                THEN fields
                ELSE [f \in DOMAIN fields \cup {"warnings"} |->
                         IF f = "warnings" THEN <<>> ELSE fields[f]]
    IN  Returns(_validate_results(self))

get_woc_guideline(self, ties) ==
    format(self.woc_min, 2, ties[1]) \o " to " \o format(self.woc_max, 2, ties[2])

get_doc_guideline(self, ties) ==
    format(self.doc_min, 2, ties[1]) \o " to " \o format(self.doc_max, 2, ties[2])

get_plunge_rate_guideline(self, ties) ==
    IF self.plunge_rate_min = NoFloat \/ self.plunge_rate_max = NoFloat
    THEN "N/A"
    ELSE IF self.plunge_rate_min = self.plunge_rate_max
    THEN format(self.plunge_rate_min, 0, ties[1])
    ELSE format(self.plunge_rate_min, 0, ties[1]) \o " to " \o
         format(self.plunge_rate_max, 0, ties[2])

(****************** EventHandler: the handle_ operations *******************)
\* event_handlers.py imports suggest_chipload(tool_diameter, material) from
\* calculations, which defines it as a method of ChiploadCalculator only; the
\* function is taken from the suggester's contract, which is that method's
suggest_chipload_function(tool_diameter, material) ==
    suggest_chipload(tool_diameter, material)

\* the value of a feedrate whose root is rational
FeedValue(f) == Div(f.base, Root(f.den))

\* abs() of a float
abs(x) == IF Less(x, Zero) THEN Neg(x) ELSE x

\* f"{x:.4f}" for x >= 0, a tie decided as in format
format4(x, tie) ==
    The({The({LET last == units % 10000
              IN  ToString(units \div 10000) \o "." \o
                  (IF last < 10 THEN "000" ELSE IF last < 100 THEN "00"
                   ELSE IF last < 1000 THEN "0" ELSE "") \o ToString(last) :
              units \in {LET num == IF y.e >= 0 THEN y.n * Pow2(y.e) ELSE y.n
                             den == IF y.e >= 0 THEN y.d ELSE y.d * Pow2(0 - y.e)
                             twice == 2 * (num % den)
                         IN  IF twice < den THEN num \div den
                             ELSE IF twice > den THEN (num \div den) + 1
                             ELSE (num \div den) + tie}}) :
         y \in {Mul(x, Int2F(10000))}})

\* event_handlers.CalculationResults(...)
eh_CalculationResults(feedrate, woc_range, doc_range, plunge_rate, warning) ==
    [feedrate |-> feedrate, woc_range |-> woc_range, doc_range |-> doc_range,
     plunge_rate |-> plunge_rate, warning |-> warning]

\* an outcome of a call: what it returns or raises, and what it asked of the UI
Outcome(result, asked) == [ret |-> result, calls |-> asked]

\* except ValueError as e: raise ValueError(prefix + str(e)); any other
\* exception passes through
Reraised(prefix, failure) ==
    IF failure.kind = "ValueError"
    THEN Raises("ValueError", prefix \o failure.msg)
    ELSE failure

handle_chipload_suggestion_update(self, tool_diameter, flutes, material, ties) ==
    The({IF suggested.kind = "ValueError"
         THEN Returns("Invalid input. Please enter valid numbers.")
         ELSE IF suggested.kind # "ok"
         THEN suggested
         ELSE Returns("Suggested chipload range:\n" \o
                      format4(suggested.val[1], ties[1]) \o " to " \o
                      format4(suggested.val[2], ties[2]) \o " mm per flute\n" \o
                      format4(Mul(suggested.val[1], flutes), ties[3]) \o " to " \o
                      format4(Mul(suggested.val[2], flutes), ties[4]) \o " mm total") :
         suggested \in {suggest_chipload_function(tool_diameter, material)}})

\* the results built from a feedrate and the guidelines for it
results_with_guidelines(self, params, feedrate, warning, ties) ==
    The({The({eh_CalculationResults(feedrate, guidelines.woc_range,
                  guidelines.doc_range, guidelines.plunge_rate, warning) :
              guidelines \in {_calculate_guidelines(self, params.tool_diameter,
                                  value, params.cutting_style, params.material,
                                  ties).val}}) :
         value \in {FeedValue(feedrate)}})

handle_calculation(self, params, ties) ==
    The({IF outcome.kind # "ok"
         THEN Reraised("Calculation failed: ", outcome)
         ELSE Returns(results_with_guidelines(self, params, outcome.val,
                          IF FeedLess(AsFeedrate(self._feedrate_limit), outcome.val)
                          THEN "Warning: Calculated feedrate exceeds " \o
                               format(self._feedrate_limit, 0, 0) \o " mm/min"
                          ELSE "",
                          ties)) :
         outcome \in {calculate_feedrate_function(params.flutes, params.rpm,
                          params.chipload, params.woc, params.tool_diameter)}})

\* the None of an Optional[CalculationResults], a record so that it compares
\* with a CalculationResults
NoResults == [none |-> TRUE]

\* lines 120-143 asking about the RPM whenever the maximizer found something
after_maximum_always_asks(self, params, upper_total_chipload, max_result, answer, ties) ==
    IF max_result.kind # "ok"
    THEN Outcome(Reraised("Maximization failed: ", max_result), <<>>)
    ELSE IF max_result.val = None
    THEN Outcome(Returns(NoResults), <<>>)
    ELSE IF answer
    THEN Outcome(Returns(NoResults),
                 <<"QMessageBox.question: Yes", "increase_rpm_callback">>)
    ELSE Outcome(Returns(results_with_guidelines(self, params, max_result.val[1], "", ties)),
                 <<"QMessageBox.question: No">>)

\* lines 120-143: what handle_feedrate_maximization makes of the maximizer's
\* outcome.  answer: what the user replies if _should_increase_rpm asks; the
\* question and its reply, then the callback, are what the call asks of the
\* interface
after_maximum(self, params, upper_total_chipload, max_result, answer, ties) ==
    IF max_result.kind # "ok"
    THEN Outcome(Reraised("Maximization failed: ", max_result), <<>>)
    ELSE IF max_result.val = None
    THEN Outcome(Returns(NoResults), <<>>)
    ELSE LET at_upper_bound == Less(abs(Sub(max_result.val[2], upper_total_chipload)),
                                    self._chipload_increment)
         IN  IF at_upper_bound /\ answer
             THEN Outcome(Returns(NoResults),
                          <<"QMessageBox.question: Yes", "increase_rpm_callback">>)
             ELSE Outcome(Returns(results_with_guidelines(self, params,
                                      max_result.val[1], "", ties)),
                          IF at_upper_bound
                          THEN <<"QMessageBox.question: No">>
                          ELSE <<>>)

handle_feedrate_maximization(self, params, answer, ties) ==
    The({IF suggested.kind # "ok"
         THEN Outcome(Reraised("Maximization failed: ", suggested), <<>>)
         ELSE The({The({after_maximum(self, params, upper_total_chipload,
                                      max_result, answer, ties) :
                        max_result \in {_find_maximum_feedrate(self, params,
                                            lower_total_chipload,
                                            upper_total_chipload)}}) :
                   lower_total_chipload \in {Mul(suggested.val[1], params.flutes)},
                   upper_total_chipload \in {Mul(suggested.val[2], params.flutes)}}) :
         suggested \in {suggest_chipload_function(params.tool_diameter, params.material)}})

(***************************** inputs **************************************)
FlutesSet == {Int2F(i) : i \in -1 .. MaxFlutes}

DiameterSet == {Zero, Two, Int2F(5), Dec(635, 2)}

RpmSet == {Zero, Int2F(18000)}

DocSet == {Zero, Dec(254, 3)}

ChiploadSet == {Zero, Dec(254, 4)}

\* widths of cut as fractions of the tool diameter
WocRatios == {Zero, Dec(1, 1), Dec(2, 1), Dec(3, 1), Dec(5, 1), Dec(75, 2), One, Dec(12, 1)}

\* a width of cut of 2^-60 mm: positive, and far below the rounding of a double
TinyWoc == [n |-> 1, d |-> 1, e |-> -60]

\* 1/2 - 2^-31 of the diameter: strictly below the boundary woc = D/2
JustBelowHalf == [n |-> 1073741823, d |-> 1, e |-> -31]

\* JustBelowHalf is paired with the diameters it can be multiplied with inside
\* 32-bit integers
WocSet(D) ==
    {Mul(D, r) : r \in WocRatios} \cup {TinyWoc}
        \cup (IF D.n = 1 /\ D.d = 1 THEN {Mul(D, JustBelowHalf)} ELSE {})

ParamSet ==
    UNION {{[flutes |-> f, tool_diameter |-> D, rpm |-> r, width_of_cut |-> w,
             depth_of_cut |-> dc, chipload |-> c] :
               f \in FlutesSet, r \in RpmSet, w \in WocSet(D), dc \in DocSet,
               c \in ChiploadSet} : D \in DiameterSet}

MaterialSet == DOMAIN materials \cup {"Titanium"}

CuttingStyleSet == {"Wide and Shallow", "Narrow and Deep"}

\* tool diameters asked of the suggester: every half millimetre from -0.5 mm
\* on, and the reference diameters themselves
ReferenceDiameters == UNION {DOMAIN materials[m] : m \in DOMAIN materials}

ToolDiameterSet == {Norm(k, 2, 0) : k \in -1 .. MaxHalfMM} \cup ReferenceDiameters

\* CalculationParameters for the maximizer; 0 flutes is among them
MaximizerParamSet ==
    [flutes : {Int2F(i) : i \in 0 .. MaxFlutes},
     tool_diameter : {Int2F(5)},
     rpm : RpmSet,
     woc : {Dec(5, 1), Int2F(5)},
     doc : {Dec(254, 3)},
     chipload : {Dec(254, 4)},
     material : {"Soft plastics"},
     cutting_style : {"Wide and Shallow"}]

\* lower total chiploads: far below the limit, next to it for either woc,
\* already above it, and 0
LowerChiploadSet == {Zero, Dec(5, 2), Dec(1998, 4), Dec(2001, 4), Dec(3331, 4)}

\* upper total chiploads: from half an increment below the lower one to
\* MaxScan increments above it, in half increments
UpperChiploadSet(lower_chipload) ==
    {Add(lower_chipload, Mul(Norm(j, 2, 0), EventHandler._chipload_increment)) :
        j \in -1 .. 2 * MaxScan}

\* ranges of either tag with the bounds of the table
ChiploadRangeSet ==
    {ChiploadRange(Float(materials[m][d][1], 0), Float(materials[m][d][2], 0), per_flute) :
        m \in DOMAIN materials, d \in ReferenceDiameters, per_flute \in BOOLEAN}

FluteCountSet == 1 .. MaxFlutes + 1

\* diameters and feedrates that reach the guidelines: validated, above 0
GuidelineDiameterSet == {d \in ToolDiameterSet : Less(Zero, d)} \cup {Dec(635, 2)}

GuidelineFeedrateSet == {Int2F(5), Dec(4572, 1), Int2F(1000), Int2F(6000)}

\* one outcome for each of the six numbers formatted
TieSet == [1 .. 6 -> {0, 1}]

\* fields of a CalculationResults: ranges in order, inverted and degenerate,
\* plunge bounds present or not, the warnings argument left out or supplied
ResultRangeSet == {<<Dec(254, 2), Dec(635, 2)>>, <<Dec(635, 2), Dec(254, 2)>>, <<One, One>>}

ResultPlungeSet ==
    {<<NoFloat, NoFloat>>, <<NoFloat, Int2F(600)>>, <<Int2F(600), Int2F(1800)>>,
     <<Int2F(1800), Int2F(600)>>, <<Int2F(1800), Int2F(1800)>>}

ResultFeedrateSet == {Int2F(6000), Int2F(10000), Dec(100001, 1)}

ResultFieldSet ==
    {[feedrate |-> feedrate, woc_min |-> woc[1], woc_max |-> woc[2],
      doc_min |-> doc[1], doc_max |-> doc[2],
      plunge_rate_min |-> plunge[1], plunge_rate_max |-> plunge[2]] :
        feedrate \in ResultFeedrateSet,
        woc \in ResultRangeSet, doc \in ResultRangeSet, plunge \in ResultPlungeSet}
    \cup
    {[feedrate |-> feedrate, woc_min |-> woc[1], woc_max |-> woc[2],
      doc_min |-> doc[1], doc_max |-> doc[2],
      plunge_rate_min |-> plunge[1], plunge_rate_max |-> plunge[2],
      warnings |-> <<"Check the tool">>] :
        feedrate \in ResultFeedrateSet,
        woc \in ResultRangeSet, doc \in ResultRangeSet, plunge \in ResultPlungeSet}

\* parameters of the handlers.  Widths of cut: the whole diameter, beyond
\* it, and two narrow ones whose chip thinning has a rational root
\* (53/1405 and 51/1301), which bring the feedrate to either side of the limit
HandlerWocRatios == {One, Two, Norm(1, 2810, 0), Norm(1, 2602, 0)}

HandlerParamSet ==
    {[flutes |-> Int2F(flutes), tool_diameter |-> tool_diameter, rpm |-> rpm,
      woc |-> Mul(tool_diameter, ratio), doc |-> Dec(254, 3), chipload |-> chipload,
      material |-> material, cutting_style |-> "Wide and Shallow"] :
        flutes \in 0 .. MaxFlutes, tool_diameter \in {Dec(15, 1), Two},
        rpm \in RpmSet, ratio \in HandlerWocRatios,
        chipload \in {Zero, Dec(13, 3), Dec(254, 4)},
        material \in {"Hard wood & aluminium", "Titanium"}}
    \cup
    \* a spindle speed that takes the feedrate above the limit at the very
    \* last chipload of the suggested range, 0.013 to 0.025
    {[flutes |-> One, tool_diameter |-> Dec(3175, 3), rpm |-> Int2F(240500),
      woc |-> Dec(3175, 3), doc |-> Dec(254, 3), chipload |-> Dec(254, 4),
      material |-> "Hard wood & aluminium", cutting_style |-> "Wide and Shallow"]}

\* ties of the formatted numbers: all to the lower side or all to the upper
HandlerTieSet == {[i \in 1 .. 6 |-> tie] : tie \in {0, 1}}

(***************************** actions *************************************)
Init ==
    /\ pc = "idle"
    /\ op = "none"
    /\ args = NoValue
    /\ ret = Raises("none", "")
    /\ calls = <<>>
    /\ locals = NoValue
    /\ evaluations = 0

CalculateFeedrate ==
    /\ pc = "idle"
    /\ \E p \in ParamSet :
          /\ args' = p
          /\ ret' = calculate_feedrate(p)
    /\ op' = "calculate_feedrate"
    /\ pc' = "returned"
    /\ UNCHANGED <<locals, evaluations>>
    /\ calls' = <<>>

SuggestChipload ==
    /\ pc = "idle"
    /\ \E tool_diameter \in ToolDiameterSet, material_type \in MaterialSet :
          /\ args' = [tool_diameter |-> tool_diameter, material_type |-> material_type]
          /\ ret' = suggest_chipload(tool_diameter, material_type)
    /\ op' = "suggest_chipload"
    /\ pc' = "returned"
    /\ UNCHANGED <<locals, evaluations>>
    /\ calls' = <<>>

\* data_models.CuttingParameters(...)
NewDataModelParameters ==
    /\ pc = "idle"
    /\ \E p \in ParamSet, material \in DOMAIN materials, cutting_style \in CuttingStyleSet :
          LET fields == [flutes |-> p.flutes, tool_diameter |-> p.tool_diameter,
                         rpm |-> p.rpm, width_of_cut |-> p.width_of_cut,
                         depth_of_cut |-> p.depth_of_cut, chipload |-> p.chipload,
                         material |-> material, cutting_style |-> cutting_style]
          IN  /\ args' = fields
              /\ ret' = dm_CuttingParameters(fields)
    /\ op' = "data_models.CuttingParameters"
    /\ pc' = "returned"
    /\ UNCHANGED <<locals, evaluations>>
    /\ calls' = <<>>

\* calculations.CuttingParameters(...)
NewCuttingParameters ==
    /\ pc = "idle"
    /\ \E p \in ParamSet :
          /\ args' = p
          /\ ret' = calc_CuttingParameters(p)
    /\ op' = "calculations.CuttingParameters"
    /\ pc' = "returned"
    /\ UNCHANGED <<locals, evaluations>>
    /\ calls' = <<>>

\* EventHandler._find_maximum_feedrate(params, lower_chipload, upper_chipload)
FindMaximumFeedrate ==
    /\ pc = "idle"
    /\ \E params \in MaximizerParamSet, lower_chipload \in LowerChiploadSet :
          \E upper_chipload \in UpperChiploadSet(lower_chipload) :
             /\ args' = [params |-> params, lower_chipload |-> lower_chipload,
                         upper_chipload |-> upper_chipload]
             /\ ret' = _find_maximum_feedrate(EventHandler, params,
                                              lower_chipload, upper_chipload)
    /\ op' = "_find_maximum_feedrate"
    /\ pc' = "returned"
    /\ UNCHANGED <<locals, evaluations>>
    /\ calls' = <<>>

\* r.to_total_chipload(flutes).to_per_flute_chipload(flutes)
ChiploadRangeRoundTrip ==
    /\ pc = "idle"
    /\ \E r \in ChiploadRangeSet, flutes \in FluteCountSet :
          \E k1, k2 \in RoundingOutcomes(flutes) \X RoundingOutcomes(flutes) :
             /\ args' = [r |-> r, flutes |-> flutes]
             /\ ret' = Returns(to_per_flute_chipload(to_total_chipload(r, flutes, k1),
                                                    flutes, k2))
    /\ op' = "to_total_chipload.to_per_flute_chipload"
    /\ pc' = "returned"
    /\ UNCHANGED <<locals, evaluations>>
    /\ calls' = <<>>

CalculateWocRange ==
    /\ pc = "idle"
    /\ \E tool_diameter \in ToolDiameterSet, cutting_style \in CuttingStyleSet :
          /\ args' = [tool_diameter |-> tool_diameter, cutting_style |-> cutting_style]
          /\ ret' = calculate_woc_range(tool_diameter, cutting_style)
    /\ op' = "calculate_woc_range"
    /\ pc' = "returned"
    /\ UNCHANGED <<locals, evaluations>>
    /\ calls' = <<>>

CalculateDocRange ==
    /\ pc = "idle"
    /\ \E tool_diameter \in ToolDiameterSet, cutting_style \in CuttingStyleSet :
          /\ args' = [tool_diameter |-> tool_diameter, cutting_style |-> cutting_style]
          /\ ret' = calculate_doc_range(tool_diameter, cutting_style)
    /\ op' = "calculate_doc_range"
    /\ pc' = "returned"
    /\ UNCHANGED <<locals, evaluations>>
    /\ calls' = <<>>

CalculatePlungeRateRange ==
    /\ pc = "idle"
    /\ \E feedrate \in GuidelineFeedrateSet, material_type \in MaterialSet :
          /\ args' = [feedrate |-> feedrate, material_type |-> material_type]
          /\ ret' = calculate_plunge_rate_range(feedrate, material_type)
    /\ op' = "calculate_plunge_rate_range"
    /\ pc' = "returned"
    /\ UNCHANGED <<locals, evaluations>>
    /\ calls' = <<>>

\* EventHandler._calculate_guidelines(tool_diameter, feedrate, cutting_style, material)
CalculateGuidelines ==
    /\ pc = "idle"
    /\ \E tool_diameter \in GuidelineDiameterSet, feedrate \in GuidelineFeedrateSet,
          cutting_style \in CuttingStyleSet, material \in MaterialSet, ties \in TieSet :
          /\ args' = [tool_diameter |-> tool_diameter, feedrate |-> feedrate,
                      cutting_style |-> cutting_style, material |-> material]
          /\ ret' = _calculate_guidelines(EventHandler, tool_diameter, feedrate,
                                          cutting_style, material, ties)
    /\ op' = "_calculate_guidelines"
    /\ pc' = "returned"
    /\ UNCHANGED <<locals, evaluations>>
    /\ calls' = <<>>

\* data_models.CalculationResults(...)
NewCalculationResults ==
    /\ pc = "idle"
    /\ \E fields \in ResultFieldSet :
          /\ args' = fields
          /\ ret' = dm_CalculationResults(fields)
    /\ op' = "data_models.CalculationResults"
    /\ pc' = "returned"
    /\ UNCHANGED <<locals, evaluations>>
    /\ calls' = <<>>

\* the CalculationResults at hand: just built, or the self of the last getter
Results == IF op = "data_models.CalculationResults" THEN ret.val ELSE args.self

ResultsAtHand ==
    /\ pc = "returned"
    /\ op \in {"data_models.CalculationResults", "get_woc_guideline",
               "get_doc_guideline", "get_plunge_rate_guideline"}

\* the getters, called on the instance at hand; they assign nothing
GetWocGuideline ==
    /\ ResultsAtHand
    /\ \E ties \in [1 .. 2 -> {0, 1}] :
          ret' = Returns(get_woc_guideline(Results, ties))
    /\ args' = [self |-> Results]
    /\ op' = "get_woc_guideline"
    /\ pc' = "returned"
    /\ UNCHANGED <<locals, evaluations>>
    /\ calls' = <<>>

GetDocGuideline ==
    /\ ResultsAtHand
    /\ \E ties \in [1 .. 2 -> {0, 1}] :
          ret' = Returns(get_doc_guideline(Results, ties))
    /\ args' = [self |-> Results]
    /\ op' = "get_doc_guideline"
    /\ pc' = "returned"
    /\ UNCHANGED <<locals, evaluations>>
    /\ calls' = <<>>

GetPlungeRateGuideline ==
    /\ ResultsAtHand
    /\ \E ties \in [1 .. 2 -> {0, 1}] :
          ret' = Returns(get_plunge_rate_guideline(Results, ties))
    /\ args' = [self |-> Results]
    /\ op' = "get_plunge_rate_guideline"
    /\ pc' = "returned"
    /\ UNCHANGED <<locals, evaluations>>
    /\ calls' = <<>>

\* EventHandler.handle_chipload_suggestion_update(tool_diameter, flutes, material)
HandleChiploadSuggestionUpdate ==
    /\ pc = "idle"
    /\ \E tool_diameter \in GuidelineDiameterSet, flutes \in FluteCountSet,
          material \in MaterialSet, ties \in HandlerTieSet :
          /\ args' = [tool_diameter |-> tool_diameter, flutes |-> Int2F(flutes),
                      material |-> material]
          /\ ret' = handle_chipload_suggestion_update(EventHandler, tool_diameter,
                        Int2F(flutes), material, ties)
    /\ op' = "handle_chipload_suggestion_update"
    /\ pc' = "returned"
    /\ UNCHANGED <<locals, evaluations>>
    /\ calls' = <<>>

\* EventHandler.handle_calculation(params)
HandleCalculation ==
    /\ pc = "idle"
    /\ \E params \in HandlerParamSet, ties \in HandlerTieSet :
          /\ args' = [params |-> params]
          /\ ret' = handle_calculation(EventHandler, params, ties)
    /\ op' = "handle_calculation"
    /\ pc' = "returned"
    /\ UNCHANGED <<locals, evaluations>>
    /\ calls' = <<>>

\* EventHandler.handle_feedrate_maximization(params, increase_rpm_callback)
HandleFeedrateMaximization ==
    /\ pc = "idle"
    /\ \E params \in HandlerParamSet, answer \in BOOLEAN, ties \in HandlerTieSet :
          \E outcome \in {handle_feedrate_maximization(EventHandler, params, answer, ties)} :
              /\ args' = [params |-> params]
              /\ ret' = outcome.ret
              /\ calls' = outcome.calls
    /\ op' = "handle_feedrate_maximization"
    /\ pc' = "returned"
    /\ UNCHANGED <<locals, evaluations>>

\* the caller takes the outcome; the next call starts from scratch
Return ==
    /\ pc = "returned"
    /\ pc' = "idle"
    /\ op' = "none"
    /\ args' = NoValue
    /\ ret' = Raises("none", "")
    /\ calls' = <<>>
    /\ locals' = NoValue
    /\ evaluations' = 0

Next ==
    \/ CalculateFeedrate
    \/ SuggestChipload
    \/ NewDataModelParameters
    \/ NewCuttingParameters
    \/ FindMaximumFeedrate
    \/ ChiploadRangeRoundTrip
    \/ CalculateWocRange
    \/ CalculateDocRange
    \/ CalculatePlungeRateRange
    \/ CalculateGuidelines
    \/ NewCalculationResults
    \/ GetWocGuideline
    \/ GetDocGuideline
    \/ GetPlungeRateGuideline
    \/ HandleChiploadSuggestionUpdate
    \/ HandleCalculation
    \/ HandleFeedrateMaximization
    \/ Return

Spec == Init /\ [][Next]_vars

(***************************** the scan, step by step ***********************)
\* _find_maximum_feedrate run one pass of its loop at a time (lines 156-181)

\* chipload bounds of a scan: the short ranges, and one so far up that the
\* increment is lost in the rounding of the sum
ScanBoundSet ==
    UNION {{<<lower_chipload, upper_chipload>> :
                upper_chipload \in UpperChiploadSet(lower_chipload)} :
           lower_chipload \in LowerChiploadSet}
    \cup {<<Norm(1, 1, 50), Norm(1, 1, 51)>>}

\* parameters of a scan: those of the maximizer, also at a spindle speed
\* that keeps the feedrate of any of the chiploads below the limit
ScanParamSet ==
    MaximizerParamSet \cup {[p EXCEPT !.rpm = Norm(1, 1, -40)] : p \in MaximizerParamSet}

\* lines 156-158
BeginScan ==
    /\ pc = "idle"
    /\ \E params \in ScanParamSet, bounds \in ScanBoundSet :
          /\ args' = [params |-> params, lower_chipload |-> bounds[1],
                      upper_chipload |-> bounds[2]]
          /\ locals' = Locals(bounds[1], AsFeedrate(Zero), bounds[1], "continue", None)
    /\ evaluations' = 0
    /\ op' = "_find_maximum_feedrate"
    /\ pc' = "while"
    /\ UNCHANGED <<ret, calls>>

\* the loop goes on: no break or exception, and the test of line 160 holds
Scanning ==
    /\ locals.exit = "continue"
    /\ Leq(locals.current_chipload, args.upper_chipload)

\* line 160: the test holds and the body is entered
EnterBody ==
    /\ pc = "while"
    /\ Scanning
    /\ pc' = "body"
    /\ UNCHANGED <<op, args, ret, calls, locals, evaluations>>

\* lines 161-176: one pass; with flutes = 0 the division fails before the
\* feedrate is asked for; the passes are counted up to MaxScan + 2
WhileBody ==
    /\ pc = "body"
    /\ locals' = while_body(EventHandler, args.params, locals)
    /\ evaluations' = IF args.params.flutes = Zero \/ evaluations >= MaxScan + 2
                      THEN evaluations
                      ELSE evaluations + 1
    /\ pc' = "while"
    /\ UNCHANGED <<op, args, ret, calls>>

\* lines 178-181, or the exception leaving the function
EndScan ==
    /\ pc = "while"
    /\ ~Scanning
    /\ ret' = IF locals.exit = "raise"
              THEN locals.error
              ELSE IF locals.max_feedrate.base = Zero
              THEN Returns(None)
              ELSE Returns(<<locals.max_feedrate, locals.max_chipload>>)
    /\ pc' = "returned"
    /\ UNCHANGED <<op, args, calls, locals, evaluations>>

ScanNext ==
    \/ BeginScan
    \/ EnterBody
    \/ WhileBody
    \/ EndScan
    \/ Return

\* the body, once entered, is left again (a pass is the only step that does)
LeaveBody == pc = "body" /\ pc' = "while"

\* a call under way keeps running: nothing else is scheduled
ScanSpec ==
    /\ Init
    /\ [][ScanNext]_vars
    /\ WF_vars(EnterBody)
    /\ WF_pc(LeaveBody)
    /\ WF_vars(EndScan)

(***************************************************************************)
(* Properties of calculate_feedrate                                        *)
(***************************************************************************)
FeedrateReturned == pc = "returned" /\ op = "calculate_feedrate"

\* the parameter constraints, as the specification lists them
ValidParameters(p) ==
    /\ Less(Zero, p.flutes)
    /\ Less(Zero, p.tool_diameter)
    /\ Less(Zero, p.rpm)
    /\ Less(Zero, p.width_of_cut)
    /\ Leq(p.width_of_cut, p.tool_diameter)
    /\ Less(Zero, p.depth_of_cut)
    /\ Less(Zero, p.chipload)

BaseFeedrate(p) == Mul(Mul(p.rpm, p.chipload), p.flutes)

HalfDiameter(p) == Div(p.tool_diameter, Two)

\* 1 - 2*woc/D, the distance of the engagement from the boundary woc = D/2
BoundaryDistance(p) == Sub(One, Div(Mul(Two, p.width_of_cut), p.tool_diameter))

\* a feedrate base / sqrt(den) against the base feedrate b > 0
EqualsBase(v, b) == v.base = b /\ v.den = One

ExceedsBase(v, b) == v.base = b /\ Less(Zero, b) /\ Less(Zero, v.den) /\ Less(v.den, One)

\* widths of cut on the grid of ratios, where no rounding intervenes
OnGrid(p) == \E r \in WocRatios : p.width_of_cut = Mul(p.tool_diameter, r)

\* 2^-20: boundary distances from here on are clear of double rounding
ClearMargin == [n |-> 1, d |-> 1, e |-> -20]

DefaultScenario ==
    [flutes |-> Int2F(1), tool_diameter |-> Dec(635, 2), rpm |-> Int2F(18000),
     width_of_cut |-> Dec(635, 2), depth_of_cut |-> Dec(254, 3), chipload |-> Dec(254, 4)]

\* C1: for every valid parameter set the outcome of calculate_feedrate is
\* rpm * chipload * flutes when woc > D/2, and otherwise the outcome of
\* evaluating base / sqrt(1 - (1 - 2*woc/D)^2) in float arithmetic (the
\* quotient, or the division's error where the root evaluates to 0.0); where
\* no rounding intervenes the squared divisor is 4*woc*(D - woc)/D^2; the
\* default scenario (1 flute, D = woc = 6.35, 18000 rpm, 0.0254) yields 457.2.
C1_FeedrateFormula ==
    (FeedrateReturned /\ ValidParameters(args)) =>
        LET p == args
            base == BaseFeedrate(p)
            den == Sub(One, Sq(BoundaryDistance(p)))
        IN  /\ Less(HalfDiameter(p), p.width_of_cut) =>
                   ret = Returns([base |-> base, den |-> One])
            /\ (~Less(HalfDiameter(p), p.width_of_cut) /\ den # Zero) =>
                   ret = Returns([base |-> base, den |-> den])
            /\ (~Less(HalfDiameter(p), p.width_of_cut) /\ den = Zero) =>
                   ret.kind = "ZeroDivisionError"
            /\ (~Less(HalfDiameter(p), p.width_of_cut) /\ OnGrid(p)) =>
                   /\ ret.kind = "ok"
                   /\ Mul(ret.val.den, Sq(p.tool_diameter)) =
                          Mul(Mul(Int2F(4), p.width_of_cut),
                              Sub(p.tool_diameter, p.width_of_cut))
            /\ p = DefaultScenario =>
                   ret = Returns([base |-> Dec(4572, 1), den |-> One])

C1_Witness ==
    /\ FeedrateReturned
    /\ ValidParameters(args)
    /\ args.flutes = Two
    /\ Less(args.width_of_cut, HalfDiameter(args))
    /\ ret.kind = "ok"
    /\ ret.val.den = Dec(64, 2)

\* C2: for all valid cutting parameters, a feedrate returned by
\* calculate_feedrate is at least the base feedrate rpm * chipload * flutes:
\* the squared divisor of the correction lies in (0, 1].
C2_FeedrateAtLeastBase ==
    (FeedrateReturned /\ ValidParameters(args) /\ ret.kind = "ok") =>
        /\ ret.val.base = BaseFeedrate(args)
        /\ Less(Zero, ret.val.base)
        /\ Less(Zero, ret.val.den)
        /\ Leq(ret.val.den, One)

C2_Witness ==
    /\ FeedrateReturned
    /\ ValidParameters(args)
    /\ ret.kind = "ok"
    /\ Less(ret.val.den, One)

\* C3 as stated: for all valid cutting parameters the returned feedrate
\* equals the base feedrate exactly when woc > D/2.
C3_EqualExactlyAboveHalf ==
    (FeedrateReturned /\ ValidParameters(args) /\ ret.kind = "ok") =>
        (EqualsBase(ret.val, BaseFeedrate(args))
            <=> Less(HalfDiameter(args), args.width_of_cut))

\* C3 as amended: the returned feedrate equals the base feedrate for every
\* woc >= D/2 (the boundary woc = D/2 included), and for no woc below D/2
\* whose distance 1 - 2*woc/D from the boundary is at least 2^-20.
C3_EqualFromHalfOn ==
    (FeedrateReturned /\ ValidParameters(args) /\ ret.kind = "ok") =>
        /\ Leq(HalfDiameter(args), args.width_of_cut) =>
               EqualsBase(ret.val, BaseFeedrate(args))
        /\ Leq(ClearMargin, BoundaryDistance(args)) =>
               ~EqualsBase(ret.val, BaseFeedrate(args))

C3_Witness ==
    /\ FeedrateReturned
    /\ ValidParameters(args)
    /\ args.width_of_cut = HalfDiameter(args)
    /\ ret.kind = "ok"
    /\ EqualsBase(ret.val, BaseFeedrate(args))

\* C4 as stated: at woc = D/2 the returned feedrate is exactly the base
\* feedrate, and for every valid woc strictly below D/2 it is strictly
\* greater than the base feedrate.
C4_StrictBelowHalf ==
    (FeedrateReturned /\ ValidParameters(args) /\ ret.kind = "ok") =>
        /\ args.width_of_cut = HalfDiameter(args) =>
               EqualsBase(ret.val, BaseFeedrate(args))
        /\ Less(args.width_of_cut, HalfDiameter(args)) =>
               ExceedsBase(ret.val, BaseFeedrate(args))

\* C4 as amended: at woc = D/2 the divisor is 1 and the returned feedrate is
\* exactly the base feedrate; for a valid woc strictly below D/2 the returned
\* feedrate is never below the base feedrate, and it is strictly greater
\* whenever 1 - 2*woc/D is at least 2^-20 (closer to the boundary the square
\* of that distance is lost to double rounding and the base is returned).
C4_StrictBelowHalfClearOfRounding ==
    (FeedrateReturned /\ ValidParameters(args) /\ ret.kind = "ok") =>
        /\ args.width_of_cut = HalfDiameter(args) =>
               EqualsBase(ret.val, BaseFeedrate(args))
        /\ Less(args.width_of_cut, HalfDiameter(args)) =>
               \/ EqualsBase(ret.val, BaseFeedrate(args))
               \/ ExceedsBase(ret.val, BaseFeedrate(args))
        /\ (Less(args.width_of_cut, HalfDiameter(args))
              /\ Leq(ClearMargin, BoundaryDistance(args))) =>
               ExceedsBase(ret.val, BaseFeedrate(args))

C4_Witness ==
    /\ FeedrateReturned
    /\ ValidParameters(args)
    /\ Less(args.width_of_cut, HalfDiameter(args))
    /\ Less(BoundaryDistance(args), ClearMargin)
    /\ ret.kind = "ok"
    /\ EqualsBase(ret.val, BaseFeedrate(args))

\* the checks of the validation, in the order the claim gives them
CheckOrder == <<"flutes", "tool diameter", "rpm", "woc", "doc", "chipload",
                "woc exceeds diameter">>

Violates(p, field) ==
    CASE field = "flutes"        -> Leq(p.flutes, Zero)
      [] field = "tool diameter" -> Leq(p.tool_diameter, Zero)
      [] field = "rpm"           -> Leq(p.rpm, Zero)
      [] field = "woc"           -> Leq(p.width_of_cut, Zero)
      [] field = "doc"           -> Leq(p.depth_of_cut, Zero)
      [] field = "chipload"      -> Leq(p.chipload, Zero)
      [] OTHER                   -> Less(p.tool_diameter, p.width_of_cut)

\* the field an error message names
FieldNamed(msg) ==
    CASE msg = "Number of flutes must be positive"        -> "flutes"
      [] msg = "Tool diameter must be positive"           -> "tool diameter"
      [] msg = "RPM must be positive"                     -> "rpm"
      [] msg = "Width of cut must be positive"            -> "woc"
      [] msg = "Depth of cut must be positive"            -> "doc"
      [] msg = "Chipload must be positive"                -> "chipload"
      [] msg = "Width of cut cannot exceed tool diameter" -> "woc exceeds diameter"
      [] OTHER                                            -> "no field"

FirstViolated(p) ==
    CheckOrder[CHOOSE i \in DOMAIN CheckOrder :
                  /\ Violates(p, CheckOrder[i])
                  /\ \A j \in 1 .. (i - 1) : ~Violates(p, CheckOrder[j])]

\* C5: calculate_feedrate fails with a validation error and returns no
\* feedrate whenever flutes <= 0, tool_diameter <= 0, rpm <= 0, woc <= 0,
\* (doc <= 0,) chipload <= 0 or woc > tool_diameter, and the error names the
\* first violated check in the order flutes, tool diameter, rpm, woc, doc,
\* chipload, woc-exceeds-diameter.
C5_ValidationErrorNamesFirstViolation ==
    (FeedrateReturned /\ \E i \in DOMAIN CheckOrder : Violates(args, CheckOrder[i])) =>
        /\ ret.kind = "ValueError"
        /\ ret.val = NoValue
        /\ FieldNamed(ret.msg) = FirstViolated(args)

C5_Witness ==
    /\ FeedrateReturned
    /\ Violates(args, "flutes")
    /\ Violates(args, "tool diameter")
    /\ Violates(args, "chipload")
    /\ ret.kind = "ValueError"
    /\ FieldNamed(ret.msg) = "flutes"

(***************************************************************************)
(* Properties of the parameter value objects                               *)
(***************************************************************************)
\* the constraints on a CuttingParameters value, as the specification lists them
FieldConstraints(p) ==
    /\ Leq(One, p.flutes)
    /\ Less(Zero, p.tool_diameter)
    /\ Less(Zero, p.rpm)
    /\ Less(Zero, p.width_of_cut)
    /\ Leq(p.width_of_cut, p.tool_diameter)
    /\ Less(Zero, p.depth_of_cut)
    /\ Less(Zero, p.chipload)

\* C6: constructing a CuttingParameters value fails whenever a field violates
\* its constraint (flutes >= 1, tool_diameter > 0, rpm > 0,
\* 0 < woc <= tool_diameter, doc > 0, chipload > 0): every instance a
\* constructor hands out satisfies all of them.
C6_NoInvalidInstanceObservable ==
    (/\ pc = "returned"
     /\ op \in {"data_models.CuttingParameters", "calculations.CuttingParameters"}
     /\ ret.kind = "ok") => FieldConstraints(ret.val)

\* C7: the feedrate calculation reports degenerate engagement as an invalid
\* parameter (a ValueError): it ends with a feedrate or with that error and
\* never with a division error.
C7_DegenerateEngagementReported ==
    FeedrateReturned => ret.kind \in {"ok", "ValueError"}

(***************************************************************************)
(* Properties of suggest_chipload                                          *)
(***************************************************************************)
SuggestReturned == pc = "returned" /\ op = "suggest_chipload"

KnownMaterial == args.material_type \in DOMAIN get_default_materials

Table == get_default_materials[args.material_type]

\* x1 < x2 are reference diameters with none in between
Adjacent(x1, x2) ==
    /\ x1 \in DOMAIN Table
    /\ x2 \in DOMAIN Table
    /\ Less(x1, x2)
    /\ ~\E x \in DOMAIN Table : Less(x1, x) /\ Less(x, x2)

\* y lies between y1 and y2, whichever is the larger
Between(y, y1, y2) ==
    \/ Leq(y1, y) /\ Leq(y, y2)
    \/ Leq(y2, y) /\ Leq(y, y1)

\* y is on the line through (x1, y1) and (x2, y2) at x
OnLine(x, y, x1, y1, x2, y2) ==
    Mul(Sub(y, y1), Sub(x2, x1)) = Mul(Sub(x, x1), Sub(y2, y1))

LastDiameter == CHOOSE x \in DOMAIN Table : \A y \in DOMAIN Table : Leq(y, x)

FirstDiameter == CHOOSE x \in DOMAIN Table : \A y \in DOMAIN Table : Leq(x, y)

\* C8: for every material of the built-in table and every reference diameter
\* of it, suggest_chipload returns exactly the tabulated (min, max) pair;
\* suggest_chipload(3.175, "Soft plastics") is (0.05, 0.13).
C8_ExactAtReferenceDiameters ==
    (SuggestReturned /\ KnownMaterial /\ args.tool_diameter \in DOMAIN Table) =>
        /\ ret = Returns(Table[args.tool_diameter])
        /\ (args.tool_diameter = Dec(3175, 3) /\ args.material_type = "Soft plastics") =>
               ret.val = <<Dec(5, 2), Dec(13, 2)>>

C8_Witness ==
    /\ SuggestReturned
    /\ KnownMaterial
    /\ args.tool_diameter = LastDiameter
    /\ args.material_type = "Hard wood & aluminium"
    /\ ret.val = <<Dec(25, 3), Dec(5, 2)>>

\* C9: for a tool diameter strictly between two adjacent reference diameters
\* x1 < x < x2, each returned bound is y1 + (x - x1) * (y2 - y1) / (x2 - x1)
\* for the corresponding bounds y1, y2 of that pair, and so lies between them.
C9_InterpolationBetweenNeighbours ==
    (SuggestReturned /\ KnownMaterial) =>
        \A x1, x2 \in DOMAIN Table :
            (/\ Adjacent(x1, x2)
             /\ Less(x1, args.tool_diameter)
             /\ Less(args.tool_diameter, x2)) =>
                /\ ret.kind = "ok"
                /\ \A i \in 1 .. 2 :
                      /\ OnLine(args.tool_diameter, ret.val[i],
                                x1, Table[x1][i], x2, Table[x2][i])
                      /\ Between(ret.val[i], Table[x1][i], Table[x2][i])

C9_Witness ==
    /\ SuggestReturned
    /\ args.material_type = "Hard wood & aluminium"
    /\ args.tool_diameter = Int2F(4)
    /\ ret.kind = "ok"
    /\ Less(Dec(13, 3), ret.val[1])
    /\ Less(ret.val[1], Dec(25, 3))
    /\ Less(Dec(25, 3), ret.val[2])
    /\ Less(ret.val[2], Dec(5, 2))

\* C10: for a tool diameter at or beyond the largest reference diameter each
\* returned bound is the last reference value plus (tool_diameter - D[last])
\* times the slope between the last two reference points; only the lower
\* bound is then raised to the floor, the lower bound tabulated at the
\* smallest reference diameter.  suggest_chipload(10, "Hard wood & aluminium")
\* extrapolates from D = 6 with the slope between D = 3.175 and D = 6.
C10_ExtrapolationBeyondLastReference ==
    (SuggestReturned /\ KnownMaterial /\ Leq(LastDiameter, args.tool_diameter)) =>
        \A prev \in DOMAIN Table :
            Adjacent(prev, LastDiameter) =>
                LET x == args.tool_diameter
                    last == LastDiameter
                    line(i) == Add(Table[last][i],
                                   Div(Mul(Sub(x, last), Sub(Table[last][i], Table[prev][i])),
                                       Sub(last, prev)))
                    floor == Table[FirstDiameter][1]
                IN  /\ ret.kind = "ok"
                    /\ ret.val[2] = line(2)
                    /\ ret.val[1] = (IF Less(line(1), floor) THEN floor ELSE line(1))
                    /\ (x = Int2F(10) /\ args.material_type = "Hard wood & aluminium") =>
                           /\ prev = Dec(3175, 3)
                           /\ last = Int2F(6)
                           /\ ret.val = <<Norm(949, 22600, 0), Norm(193, 2260, 0)>>

C10_Witness ==
    /\ SuggestReturned
    /\ args.material_type = "Hard wood & aluminium"
    /\ args.tool_diameter = Int2F(10)
    /\ ret.kind = "ok"
    /\ Less(Dec(25, 3), ret.val[1])
    /\ Less(Dec(5, 2), ret.val[2])

\* the smallest lower bound tabulated for the material, over all references
GlobalMinimumLower ==
    CHOOSE y \in {Table[d][1] : d \in DOMAIN Table} :
        \A d \in DOMAIN Table : Leq(y, Table[d][1])

\* C11: for every material of the table and every tool diameter at or beyond
\* the last reference diameter, the lower bound suggest_chipload returns is
\* at least the smallest lower bound tabulated for that material over all of
\* its reference diameters.
C11_LowerBoundAtLeastGlobalMinimum ==
    (SuggestReturned /\ KnownMaterial /\ Leq(LastDiameter, args.tool_diameter)) =>
        /\ ret.kind = "ok"
        /\ Leq(GlobalMinimumLower, ret.val[1])

C11_Witness ==
    /\ SuggestReturned
    /\ args.material_type = "Hard wood & aluminium"
    /\ Less(LastDiameter, args.tool_diameter)
    /\ GlobalMinimumLower = Dec(13, 3)
    /\ Table[LastDiameter][1] = Dec(25, 3)
    /\ ret.kind = "ok"
    /\ Leq(GlobalMinimumLower, ret.val[1])

\* C12: for any tool diameter at or below the smallest reference diameter of
\* the material, zero and negative diameters included, suggest_chipload
\* returns the range tabulated at the smallest reference diameter unchanged.
C12_ClampedBelowFirstReference ==
    (SuggestReturned /\ KnownMaterial /\ Leq(args.tool_diameter, FirstDiameter)) =>
        ret = Returns(Table[FirstDiameter])

C12_Witness ==
    /\ SuggestReturned
    /\ args.material_type = "Soft wood & hard plastics"
    /\ Less(args.tool_diameter, Zero)
    /\ ret = Returns(<<Dec(25, 3), Dec(4, 2)>>)

\* C13: with a material identifier that is not in the table suggest_chipload
\* fails with the unknown-material error, whatever the tool diameter, and
\* returns no range.
C13_UnknownMaterialFails ==
    (SuggestReturned /\ ~KnownMaterial) =>
        /\ ret.kind = "ValueError"
        /\ ret.msg = "Unknown material type: " \o args.material_type
        /\ ret.val = NoValue

C13_Witness ==
    /\ SuggestReturned
    /\ args.material_type = "Titanium"
    /\ Leq(Int2F(6), args.tool_diameter)
    /\ ret.kind = "ValueError"

(***************************************************************************)
(* Properties of EventHandler._find_maximum_feedrate                       *)
(***************************************************************************)
MaximizerReturned == pc = "returned" /\ op = "_find_maximum_feedrate"

\* the call returned a (feedrate, chipload) pair
MaximizerFound == MaximizerReturned /\ ret.kind = "ok" /\ ret.val # None

\* the ceiling of the handler
Ceiling == AsFeedrate(EventHandler._feedrate_limit)

\* the k-th total chipload of the scan
GridChipload(k) ==
    Add(args.lower_chipload, Mul(Int2F(k), EventHandler._chipload_increment))

\* the indices of the grid chiploads within the bounds
GridIndices == {k \in 0 .. MaxScan + 1 : Leq(GridChipload(k), args.upper_chipload)}

\* the feedrate for the total chipload c with the parameters of the call
FeedrateAt(c) ==
    calculate_feedrate_function(args.params.flutes, args.params.rpm,
        Div(c, args.params.flutes), args.params.woc, args.params.tool_diameter)

\* the grid chipload k has a feedrate, and it is not above the limit
Feasible(k, limit) ==
    /\ args.params.flutes # Zero
    /\ FeedrateAt(GridChipload(k)).kind = "ok"
    /\ FeedLeq(FeedrateAt(GridChipload(k)).val, limit)

\* C14: whenever the maximizer returns (best_feedrate, best_total_chipload),
\* the chipload is within [lower_total, upper_total], the feedrate is above
\* 0 and not above the ceiling, and the feedrate is the one computed at the
\* returned chipload.
C14_ResultWithinBoundsAndCeiling ==
    MaximizerFound =>
        /\ Leq(args.lower_chipload, ret.val[2])
        /\ Leq(ret.val[2], args.upper_chipload)
        /\ FeedLess(AsFeedrate(Zero), ret.val[1])
        /\ FeedLeq(ret.val[1], Ceiling)
        /\ FeedrateAt(ret.val[2]) = Returns(ret.val[1])

C14_Witness ==
    /\ MaximizerFound
    /\ Less(args.lower_chipload, ret.val[2])
    /\ Less(ret.val[2], args.upper_chipload)
    /\ FeedLess(ret.val[1], Ceiling)
    /\ args.params.flutes = Two

\* C15: the returned feedrate is the largest feedrate not above the ceiling
\* among the chiploads lower_total + k * increment <= upper_total, k = 0, 1,
\* ...: it is the feedrate of one of them, and none of them, those after the
\* stop at the first feedrate above the ceiling included, has a feedrate
\* within the ceiling that is larger.
C15_LargestFeasibleOnGrid ==
    MaximizerFound =>
        /\ \E k \in GridIndices :
              /\ GridChipload(k) = ret.val[2]
              /\ FeedrateAt(GridChipload(k)) = Returns(ret.val[1])
        /\ \A k \in GridIndices :
              Feasible(k, Ceiling) => FeedLeq(FeedrateAt(GridChipload(k)).val, ret.val[1])

C15_Witness ==
    /\ MaximizerFound
    /\ ret.val[1] = [base |-> Int2F(3600), den |-> Norm(9, 25, 0)]
    /\ \E k \in GridIndices :
          /\ Less(ret.val[2], GridChipload(k))
          /\ ~Feasible(k, Ceiling)

\* ceilings to compare the ceiling of the handler with
CeilingSet == {Int2F(3000), Int2F(5997), Int2F(6000), Int2F(9000)}

\* the outcome of the same call on a handler with the ceiling c
OutcomeWithCeiling(c) ==
    _find_maximum_feedrate([EventHandler EXCEPT !._feedrate_limit = c],
                           args.params, args.lower_chipload, args.upper_chipload)

\* a is a result, and so is b, with a feedrate that is not lower
NotLowered(a, b) ==
    (a.kind = "ok" /\ a.val # None) =>
        /\ b.kind = "ok"
        /\ b.val # None
        /\ FeedLeq(a.val[1], b.val[1])

\* C16: for fixed parameters and chipload bounds, raising the ceiling never
\* lowers the returned feedrate: for ceilings c1 <= c2 a result at c1 comes
\* with a result at c2 whose feedrate is at least as large, and no result at
\* c2 comes with no result at c1.
C16_MonotoneInCeiling ==
    MaximizerReturned =>
        \A c \in CeilingSet :
            LET other == OutcomeWithCeiling(c)
            IN  IF Leq(c, EventHandler._feedrate_limit)
                THEN /\ NotLowered(other, ret)
                     /\ ret = Returns(None) => other = Returns(None)
                ELSE /\ NotLowered(ret, other)
                     /\ other = Returns(None) => ret = Returns(None)

C16_Witness ==
    /\ MaximizerFound
    /\ OutcomeWithCeiling(Int2F(3000)) = Returns(None)
    /\ OutcomeWithCeiling(Int2F(5997)).val # None
    /\ FeedLess(OutcomeWithCeiling(Int2F(5997)).val[1], ret.val[1])
    /\ OutcomeWithCeiling(Int2F(9000)).val # None
    /\ FeedLess(ret.val[1], OutcomeWithCeiling(Int2F(9000)).val[1])

\* the scan reaches the grid chipload k: no earlier one was above the ceiling
Scanned(k) ==
    /\ k \in GridIndices
    /\ \A j \in 0 .. k - 1 : Feasible(j, Ceiling)

\* C17: a call that does not fail returns None exactly when no scanned
\* chipload has a feedrate within the ceiling; that is so when the feedrate
\* at lower_total is already above the ceiling and when lower_total is above
\* upper_total.
C17_NoneExactlyWhenNothingFeasible ==
    MaximizerReturned =>
        /\ ret.kind = "ok" =>
              (ret.val = None <=> ~\E k \in 0 .. MaxScan + 1 : Scanned(k) /\ Feasible(k, Ceiling))
        /\ Less(args.upper_chipload, args.lower_chipload) => ret = Returns(None)
        /\ (/\ Leq(args.lower_chipload, args.upper_chipload)
            /\ args.params.flutes # Zero
            /\ FeedrateAt(args.lower_chipload).kind = "ok"
            /\ FeedLess(Ceiling, FeedrateAt(args.lower_chipload).val)) => ret = Returns(None)

C17_Witness ==
    /\ MaximizerReturned
    /\ ret = Returns(None)
    /\ Less(args.lower_chipload, args.upper_chipload)
    /\ FeedrateAt(args.lower_chipload).kind = "ok"
    /\ FeedLess(Ceiling, FeedrateAt(args.lower_chipload).val)

(***************************************************************************)
(* Properties of ChiploadRange                                             *)
(***************************************************************************)
RoundTripReturned == pc = "returned" /\ op = "to_total_chipload.to_per_flute_chipload"

\* C18 as stated: for every ChiploadRange r and flute count f >= 1,
\* r.to_total_chipload(f).to_per_flute_chipload(f) equals r (same lower,
\* same upper, same tag), whether r is tagged per-flute or total.
C18_RoundTripReturnsRange ==
    RoundTripReturned => ret.val = args.r

\* C18, amended: the round trip returns a range tagged per-flute.  For r
\* tagged per-flute its bounds are (lower * f) / f and (upper * f) / f: those
\* of r when f is a power of two, and else those of r up to the rounding of
\* the product and the quotient (a bound of r or the double next to it).
\* For r tagged total, to_total_chipload returns r itself and the round trip
\* returns (lower / f, upper / f) tagged per-flute, which is not r.
C18_RoundTripOfPerFluteRange ==
    RoundTripReturned =>
        LET r == args.r
            f == args.flutes
            back == ret.val
        IN  /\ back.per_flute
            /\ r.per_flute =>
                  /\ back.lower.x = r.lower.x
                  /\ back.upper.x = r.upper.x
                  /\ back.lower.err \in {-1, 0, 1}
                  /\ back.upper.err \in {-1, 0, 1}
                  /\ Int2F(f).n = 1 => back = r
            /\ ~r.per_flute =>
                  /\ back.lower.x = Div(r.lower.x, Int2F(f))
                  /\ back.upper.x = Div(r.upper.x, Int2F(f))
                  /\ back # r

C18_Witness ==
    /\ RoundTripReturned
    /\ args.r.per_flute
    /\ args.flutes = 2
    /\ args.r.lower.x = Dec(13, 3)
    /\ args.r.upper.x = Dec(25, 3)
    /\ ret.val = args.r

(***************************************************************************)
(* Properties of the guidelines                                            *)
(***************************************************************************)
WocRangeReturned == pc = "returned" /\ op = "calculate_woc_range"

DocRangeReturned == pc = "returned" /\ op = "calculate_doc_range"

PlungeRateRangeReturned == pc = "returned" /\ op = "calculate_plunge_rate_range"

GuidelinesReturned == pc = "returned" /\ op = "_calculate_guidelines"

\* the fractions of the tool diameter, as stated
WocFractions(cutting_style) ==
    IF cutting_style = "Wide and Shallow"
    THEN <<Dec(4, 1), One>>
    ELSE <<Dec(1, 1), Dec(25, 2)>>

DocFractions(cutting_style) ==
    IF cutting_style = "Wide and Shallow"
    THEN <<Dec(5, 2), Dec(1, 1)>>
    ELSE <<One, Int2F(3)>>

\* "<lo> to <hi>" with two decimals, for either outcome of a tie
FormattedRange(lo, hi) ==
    {format(lo, 2, t1) \o " to " \o format(hi, 2, t2) : t1, t2 \in {0, 1}}

\* C19: for a tool diameter D the width-of-cut guideline is (0.4 D, 1.0 D)
\* for "Wide and Shallow" and (0.1 D, 0.25 D) for "Narrow and Deep", the
\* depth-of-cut guideline is (0.05 D, 0.1 D) for "Wide and Shallow" and
\* (1.0 D, 3.0 D) for "Narrow and Deep", and the strings that
\* _calculate_guidelines formats are those of the same ranges.
C19_GuidelineFractions ==
    LET D == args.tool_diameter
        woc == WocFractions(args.cutting_style)
        doc == DocFractions(args.cutting_style)
        table == CUTTING_GUIDELINES[args.cutting_style]
    IN  /\ WocRangeReturned =>
              /\ ret = Returns(<<Mul(D, woc[1]), Mul(D, woc[2])>>)
              /\ woc = <<table.woc_min, table.woc_max>>
        /\ DocRangeReturned =>
              /\ ret = Returns(<<Mul(D, doc[1]), Mul(D, doc[2])>>)
              /\ doc = <<table.doc_min, table.doc_max>>
        /\ GuidelinesReturned =>
              /\ ret.kind = "ok"
              /\ ret.val.woc_range \in FormattedRange(Mul(D, woc[1]), Mul(D, woc[2]))
              /\ ret.val.doc_range \in FormattedRange(Mul(D, doc[1]), Mul(D, doc[2]))

C19_Witness ==
    /\ GuidelinesReturned
    /\ args.tool_diameter = Dec(635, 2)
    /\ args.cutting_style = "Narrow and Deep"
    /\ ret.val.woc_range = "0.64 to 1.59"
    /\ ret.val.doc_range = "6.35 to 19.05"

\* the fractions of the feedrate, as stated
PlungeFractions(material_type) ==
    IF material_type = "Hard wood & aluminium" THEN <<Dec(1, 1), Dec(3, 1)>>
    ELSE IF material_type = "Soft wood & hard plastics" THEN <<Dec(3, 1), Dec(3, 1)>>
    ELSE <<Dec(4, 1), Dec(5, 1)>>

\* C20: for a feedrate F the plunge-rate guideline is (0.1 F, 0.3 F) for
\* "Hard wood & aluminium", (0.3 F, 0.3 F) for "Soft wood & hard plastics"
\* and (0.4 F, 0.5 F) for every other material identifier, those that are
\* not in the table included; for the materials of PLUNGE_RATE_GUIDELINES
\* these are its fractions.
C20_PlungeRateFractions ==
    PlungeRateRangeReturned =>
        LET F == args.feedrate
            plunge == PlungeFractions(args.material_type)
        IN  /\ ret = Returns(<<Mul(F, plunge[1]), Mul(F, plunge[2])>>)
            /\ args.material_type \in DOMAIN PLUNGE_RATE_GUIDELINES =>
                  plunge = PLUNGE_RATE_GUIDELINES[args.material_type]

C20_Witness ==
    /\ PlungeRateRangeReturned
    /\ args.material_type = "Titanium"
    /\ args.feedrate = Int2F(1000)
    /\ ret = Returns(<<Int2F(400), Int2F(500)>>)

(***************************** C21 ******************************************)
Range(s) == {s[i] : i \in 1 .. Len(s)}

NoDuplicates(s) == Cardinality(Range(s)) = Len(s)

ResultsBuiltWithoutWarnings ==
    /\ pc = "returned"
    /\ op = "data_models.CalculationResults"
    /\ "warnings" \notin DOMAIN args

\* each warning is there exactly when its condition holds, and nothing else is
WarningsDetermined(self) ==
    LET w == Range(self.warnings)
    IN  /\ "Calculated feedrate exceeds 10,000 mm/min" \in w
              <=> Less(Int2F(10000), self.feedrate)
        /\ "Invalid WOC range" \in w <=> Less(self.woc_max, self.woc_min)
        /\ "Invalid DOC range" \in w <=> Less(self.doc_max, self.doc_min)
        /\ "Invalid plunge rate range" \in w
              <=> /\ self.plunge_rate_min # NoFloat
                  /\ self.plunge_rate_max # NoFloat
                  /\ Less(self.plunge_rate_max, self.plunge_rate_min)
        /\ w \subseteq {"Calculated feedrate exceeds 10,000 mm/min", "Invalid WOC range",
                        "Invalid DOC range", "Invalid plunge rate range"}
        /\ NoDuplicates(self.warnings)

\* C21: a CalculationResults built without a warnings list carries exactly the
\* warnings its other fields determine (feedrate > 10000, woc_max < woc_min,
\* doc_max < doc_min, both plunge bounds present and max < min), and no
\* operation on the instance changes its warnings afterwards.
C21_WarningsDeterminedAtConstruction ==
    /\ [](ResultsBuiltWithoutWarnings => WarningsDetermined(ret.val))
    /\ [][ResultsAtHand /\ ResultsAtHand' => Results'.warnings = Results.warnings]_vars

\* all four warnings on an instance that has since been asked for a guideline
C21_Witness ==
    /\ pc = "returned"
    /\ op = "get_plunge_rate_guideline"
    /\ args.self.warnings = <<"Calculated feedrate exceeds 10,000 mm/min",
                               "Invalid WOC range", "Invalid DOC range",
                               "Invalid plunge rate range">>

(***************************** C22 ******************************************)
HandlerReturned ==
    /\ pc = "returned"
    /\ op \in {"handle_chipload_suggestion_update", "handle_calculation",
               "handle_feedrate_maximization"}

\* what the maximizer makes of the suggested range of the parameters
SuggestedScan(params) ==
    LET suggested == suggest_chipload_function(params.tool_diameter, params.material)
    IN  _find_maximum_feedrate(EventHandler, params,
                               Mul(suggested.val[1], params.flutes),
                               Mul(suggested.val[2], params.flutes))

SuggestionFails(params) ==
    suggest_chipload_function(params.tool_diameter, params.material).kind # "ok"

MaximizerNotFound(params) ==
    /\ ~SuggestionFails(params)
    /\ SuggestedScan(params).kind = "ok"
    /\ SuggestedScan(params).val = None

\* what handle_feedrate_maximization hands to its caller when the maximizer
\* finds nothing
NotFoundOutcomes ==
    {handle_feedrate_maximization(EventHandler, params, answer, ties).ret :
        params \in {p \in HandlerParamSet : MaximizerNotFound(p)},
        answer \in BOOLEAN, ties \in HandlerTieSet}

\* the core operation behind the handler call at hand failed
CoreFailed ==
    CASE op = "handle_chipload_suggestion_update" ->
            suggest_chipload_function(args.tool_diameter, args.material).kind # "ok"
      [] op = "handle_calculation" ->
            calculate_feedrate_function(args.params.flutes, args.params.rpm,
                args.params.chipload, args.params.woc,
                args.params.tool_diameter).kind # "ok"
      [] op = "handle_feedrate_maximization" ->
            \/ SuggestionFails(args.params)
            \/ SuggestedScan(args.params).kind # "ok"
            \/ MaximizerNotFound(args.params)
      [] OTHER -> FALSE

\* C22: a handler call whose core operation failed (invalid parameter, unknown
\* material, nothing feasible in the maximizer) does not return normally, and
\* what a maximization that found nothing hands to the caller is handed to it
\* by no maximization that found something.
C22_FailuresReachTheCaller ==
    HandlerReturned =>
        /\ CoreFailed => ret.kind # "ok"
        /\ op = "handle_feedrate_maximization" /\ ~MaximizerNotFound(args.params)
              => ret \notin NotFoundOutcomes

(***************************** C23 ******************************************)
\* at most floor((upper - lower) / increment) + 1 evaluations, none if the
\* bounds are out of order (k <= floor(q) is k <= q for an integer k)
WithinEvaluationBound ==
    IF Less(args.upper_chipload, args.lower_chipload)
    THEN evaluations = 0
    ELSE Leq(Int2F(evaluations - 1),
             Div(Sub(args.upper_chipload, args.lower_chipload),
                 EventHandler._chipload_increment))

\* a pass that calls for another one has moved the chipload up by the increment
AdvancesByIncrement ==
    WhileBody /\ locals'.exit = "continue" =>
        /\ Less(locals.current_chipload, locals'.current_chipload)
        /\ Sub(locals'.current_chipload, locals.current_chipload)
              = EventHandler._chipload_increment

\* a feedrate above the ceiling ends the scan: no pass follows it
StopsAtCeiling ==
    pc \in {"while", "body"} /\ locals.exit = "break" => pc = "while" /\ ~ENABLED EnterBody

\* C23: with a positive increment and finite bounds the scan terminates, after
\* at most floor((upper_total - lower_total) / increment) + 1 feedrate
\* evaluations (none when lower_total > upper_total); every pass moves the
\* chipload up by exactly the increment, and nothing is evaluated after the
\* first feedrate above the ceiling.
C23_ScanTerminatesWithinBound ==
    /\ (pc = "while") ~> (pc = "returned")
    /\ [](pc \in {"while", "body", "returned"} => WithinEvaluationBound)
    /\ [][AdvancesByIncrement]_vars
    /\ [](StopsAtCeiling)

(***************************** C24 ******************************************)
\* handle_calculation on the parameters of the maximizer call at hand, the
\* chipload field set to the chipload the maximizer returned
CalculationAtBestChipload ==
    handle_calculation(EventHandler, [args.params EXCEPT !.chipload = ret.val[2]],
                       [i \in 1 .. 6 |-> 0])

\* C24: with the chipload field set to the best total chipload the maximizer
\* returned, and all else unchanged, handle_calculation yields the feedrate
\* the maximizer reported, whatever the number of flutes.
C24_CalculationReproducesMaximizer ==
    MaximizerFound =>
        /\ CalculationAtBestChipload.kind = "ok"
        /\ CalculationAtBestChipload.val.feedrate = ret.val[1]

(***************************** C25 ******************************************)
MaximizationReturned == pc = "returned" /\ op = "handle_feedrate_maximization"

\* the largest integer not above x, for x >= 0
Floor(x) ==
    IF x.e >= 0 THEN (x.n * Pow2(x.e)) \div x.d ELSE x.n \div (x.d * Pow2(0 - x.e))

SuggestedLowerTotal(params) ==
    Mul(suggest_chipload_function(params.tool_diameter, params.material).val[1],
        params.flutes)

SuggestedUpperTotal(params) ==
    Mul(suggest_chipload_function(params.tool_diameter, params.material).val[2],
        params.flutes)

\* the total chiploads from the lower bound up to the upper one, an increment apart
ScannedChiploads(params) ==
    IF Less(SuggestedUpperTotal(params), SuggestedLowerTotal(params))
    THEN {}
    ELSE {Add(SuggestedLowerTotal(params), Mul(Int2F(k), EventHandler._chipload_increment)) :
             k \in 0 .. Floor(Div(Sub(SuggestedUpperTotal(params), SuggestedLowerTotal(params)),
                                  EventHandler._chipload_increment))}

\* the maximizer found a result and no chipload up to the upper bound gives a
\* feedrate above the limit
FoundAndAllWithinLimit(params) ==
    /\ ~SuggestionFails(params)
    /\ SuggestedScan(params).kind = "ok"
    /\ SuggestedScan(params).val # None
    /\ \A c \in ScannedChiploads(params) :
          LET outcome == calculate_feedrate_function(params.flutes, params.rpm,
                             Div(c, params.flutes), params.woc, params.tool_diameter)
          IN  outcome.kind = "ok" /\ FeedLeq(outcome.val, Ceiling)

TimesCalled(what) == Cardinality({i \in 1 .. Len(calls) : calls[i] = what})

Asked == TimesCalled("QMessageBox.question: Yes") + TimesCalled("QMessageBox.question: No")

\* C25: handle_feedrate_maximization asks about the RPM exactly when the
\* maximizer found a result and every chipload scanned up to the upper total
\* bound stayed within the feedrate limit; the callback is invoked at most
\* once, only after the question was answered with yes, and then no result is
\* returned; it is never invoked when the maximizer fails or finds nothing.
C25_RpmPromptAndCallback ==
    MaximizationReturned =>
        /\ Asked = (IF FoundAndAllWithinLimit(args.params) THEN 1 ELSE 0)
        /\ TimesCalled("increase_rpm_callback") <= 1
        /\ TimesCalled("increase_rpm_callback") = 1 =>
              /\ calls = <<"QMessageBox.question: Yes", "increase_rpm_callback">>
              /\ ret = Returns(NoResults)
        /\ TimesCalled("QMessageBox.question: Yes") = 1 =>
              TimesCalled("increase_rpm_callback") = 1
        /\ (CoreFailed \/ ret.kind # "ok") => TimesCalled("increase_rpm_callback") = 0

\* a scan of several chiploads that ends at the upper bound, the question
\* answered with yes
C25_Witness ==
    /\ MaximizationReturned
    /\ args.params.tool_diameter = Two
    /\ args.params.flutes = Two
    /\ calls = <<"QMessageBox.question: Yes", "increase_rpm_callback">>

(***************************** C26 ******************************************)
SuggestionReturned ==
    /\ pc = "returned"
    /\ op = "suggest_chipload"
    /\ ret.kind = "ok"

\* C26: for every material of the built-in table and every tool diameter,
\* suggest_chipload returns a pair with 0 < lower <= upper; beyond the last
\* reference diameter the floor the lower bound is clamped to does not lie
\* above the extrapolated upper bound.
C26_SuggestedRangeOrdered ==
    SuggestionReturned /\ args.material_type \in DOMAIN materials =>
        /\ Less(Zero, ret.val[1])
        /\ Leq(ret.val[1], ret.val[2])
        /\ LET chipload_ranges == materials[args.material_type]
               diameters == sorted(DOMAIN chipload_ranges)
           IN  Leq(diameters[Len(diameters)], args.tool_diameter) =>
                  Leq(chipload_ranges[diameters[1]][1], ret.val[2])

\* a range extrapolated beyond the last reference diameter whose bounds differ
C26_Witness ==
    /\ SuggestionReturned
    /\ args.material_type = "Hard wood & aluminium"
    /\ args.tool_diameter = Int2F(10)
    /\ Less(ret.val[1], ret.val[2])

=============================================================================
